---- MODULE Spec2Model ----
(***************************************************************************)
(* Verification model of calvinw/llm-chat: the SSE stream decoder, the     *)
(* chat sessions (ChatEngine, the React useChatEngine hooks), the tool     *)
(* executor and the dual-transport MCP client.                             *)
(*                                                                         *)
(* The module holds several specifications that share one variable list;   *)
(* each specification moves its own group of variables and leaves the      *)
(* other groups at their initial values.                                   *)
(*   SpecDecoder  the streaming decoder loop over a chunked SSE body       *)
(*   SpecEngine   ChatEngine: sendMessage, streaming, fallback, clear      *)
(*   SpecReact    react-llm-chat useChatEngine over OpenRouterClient       *)
(*   SpecTools    ToolExecutor.execute: concurrent dispatch of one round   *)
(*   SpecMcp      MCPClient: transport detection, handshake, calls         *)
(*   SpecChat     useChatEngine with tools: turns, tool rounds, fallback   *)
(*   SpecHook     useMCPManager: the debounced connection effect           *)
(*   SpecImproved ImprovedMCPClient: handshake, calls, disconnect          *)
(*   SpecAccum    the tool-call deltas of one streamed response            *)
(*   SpecSseBody  handleSSEResponse: the reply in an event-stream body     *)
(*   SpecNotify   LLMChatInterface.handleSendMessage and onMessage         *)
(***************************************************************************)
EXTENDS Integers, Sequences, FiniteSets, TLC

(***************************************************************************)
(* Bounds of the model.                                                    *)
(***************************************************************************)
MaxDeltas == 7
MaxLines == 2
MaxEngineTurns == 2
MaxStreamDeltas == 2
MaxReactTurns == 2
MaxCalls == 3
MaxMcpOps == 3
MaxChatTurns == 2
MaxRounds == 1
MaxRequests == 2
MaxNestedRounds == 2
MaxDisplayCalls == 2
MaxUrlChanges == 3
MaxImprovedOps == 3
MaxStreamedCalls == 2
MaxArgLen == 3
MaxFragments == 3
MaxSseLines == 4

(***************************************************************************)
(* Program constants.                                                      *)
(***************************************************************************)
ThrottleEvery == 6
\* the id of the detection probe, the string 'transport-test': no number of
\* the id counter
TransportTestId == 0

VARIABLES
    \* ---- stream decoder (OpenRouterClient.streamCompletion,
    \* ---- ChatEngine.makeStreamingApiRequest)
    body,                \* the SSE response body, a sequence of symbols
    pos,                 \* number of symbols the reader has delivered
    accumulatedContent,  \* let accumulatedContent
    updateCount,         \* let updateCount
    shown,               \* content last propagated (onChunk / onComplete / updateMessage)
    updates,             \* number of throttled updates propagated so far
    completions,         \* number of completion signals (onComplete / final updateMessage)
    readerState,         \* "reading" | "eof" | "sentinel"
    \* ---- ChatEngine (vanilla JS session)
    engMessages,         \* store.state.messages
    engTurn,             \* one record per sendMessage call (its locals and position)
    \* ---- react-llm-chat useChatEngine + OpenRouterClient.streamCompletion
    rxApiKey,            \* whether an API key is set (apiClient non-null)
    rxMessages,          \* useState messages
    rxIsLoading,         \* useState isLoading
    rxIsStreaming,       \* useState isStreaming
    rxError,             \* useState error
    rxPc,                \* position of the current call chain
    rxAcc,               \* accumulatedContent of the running streamCompletion
    rxTurn,              \* number of sendMessage calls accepted so far
    rxStreamReq,         \* messages of the streaming request of the turn
    rxFallbackReq,       \* messages of the non-streaming request of the turn
    rxRequests,          \* requests issued for the turn
    rxSendResult,        \* how the promise of the last accepted sendMessage settled
    rxUnhandled,         \* a rejection nobody awaits was raised
    rxLastOp,            \* outcome of the last sendMessage call
    rxCallbacks,         \* callbacks the current streamCompletion call invoked
    \* ---- ToolExecutor.execute (useToolManager.executeTools)
    txCalls,             \* the tool calls of the round, in call order
    txSettled,           \* index -> "pending" | "returns" | "throws"
    txOrder,             \* the indices in the order their handlers completed
    txReturned,          \* the result array once execute has returned (<<>> before)
    \* ---- MCPClient
    mcpTransport,        \* this.transport
    mcpConnected,        \* this.connected
    mcpTools,            \* this.tools
    mcpMessageId,        \* this.messageId
    mcpSessionId,        \* this.sessionId ("null" when absent)
    mcpSse,              \* this.sseConnection: "null" or the EventSource's state
    mcpEndpoint,         \* this.messageEndpoint
    mcpPending,          \* the keys of this.pendingRequests
    mcpTimers,           \* the request ids whose response timer is running
    mcpPc,               \* where connect() or callTool is waiting
    mcpAwaited,          \* the id of the request being awaited (0: none)
    mcpProbes,           \* the probe answers of connect(), while it is the last call
    mcpSent,             \* the requests sent by the current connect() or callTool
    mcpResult,           \* what the last connect() or callTool produced
    mcpOps,              \* the number of calls made on the client
    mcpRequested,        \* the transport argument the client was constructed with
    mcpLife,             \* the last of connect() and disconnect() called ("new": neither)
    \* ---- useChatEngine with tools
    chApiKey,            \* whether an API key was given (apiClient is not null)
    chMessages,          \* messages
    chIsLoading,         \* isLoading
    chIsStreaming,       \* isStreaming
    chError,             \* error
    chTurn,              \* the activations of sendMessage: position and closure
    chLastSend,          \* how the sendMessage accepted in the last step found the session
    chRoundsLeft,        \* the number of tool rounds the model may still ask for
    \* ---- MCPClient, sse-legacy request correlation
    pqEndpoint,          \* this.messageEndpoint
    pqMessageId,         \* this.messageId
    pqPending,           \* the keys of this.pendingRequests
    pqTimers,            \* the request ids whose response timer is running
    pqCalls,             \* request id -> the sendMessageSSELegacy call that took it
    \* ---- the tool_execution messages of one tool round
    teCalls,             \* the tool calls of the round, in call order
    teResults,           \* the results executeTools returned for them
    teMessages,          \* the messages appended for the round (<<>> before)
    \* ---- useMCPManager
    hkUrl,               \* state mcpServerUrl
    hkStatus,            \* state mcpConnectionStatus
    hkTools,             \* state mcpTools: the client whose tool list it is (0: [])
    hkHandlers,          \* state mcpToolHandlers: the client they call (0: {})
    hkClient,            \* state mcpClient (0: null)
    hkTimer,             \* the debounced connectToMCP and the render it closes over
    hkClients,           \* every MCPClient the hook created: its connection
    hkMounted,           \* the component is mounted
    hkChanges,           \* setMcpServerUrl calls so far
    hkPrevious,          \* clients connected when the URL changed or the hook unmounted
    hkClientUrl,         \* every MCPClient the hook created: its serverUrl
    \* ---- ImprovedMCPClient
    impConnected,        \* this.connected
    impTools,            \* this.tools
    impMessageId,        \* this.messageId
    impSessionId,        \* this.sessionId ("null": none)
    impPc,               \* where connect() or callTool is waiting
    impSent,             \* the requests the running operation has sent, in order
    impResult,           \* what the last connect() or callTool returned or threw
    impOps,              \* connect, callTool and disconnect calls so far
    \* ---- tool-call accumulation of one streamed response
    acExpected,          \* the tool calls the model streams (id, name, argument text)
    acSent,              \* per call index: argument characters sent so far
    acFrags,             \* per call index: deltas sent so far
    acCalls,             \* toolCalls: the calls merged from the deltas
    acSignals,           \* completion signals the stream has given
    acExecuted,          \* the lists executeTools was called with, in order
    \* ---- handleSSEResponse on one event-stream body
    sbBody,              \* the lines of the body of the POST response
    sbResult,            \* what handleSSEResponse returned or threw
    \* ---- LLMChatInterface.handleSendMessage and the onMessage prop
    nfApiKey,            \* the apiKey of the component is set
    nfMessages,          \* messages state of useChatEngine
    nfPc,                \* where the turn of useChatEngine.sendMessage is
    nfHandler,           \* the running handleSendMessage: its argument and the
                         \* messages of the render that created it
    nfTurn,              \* number of sendMessage calls accepted
    nfOnMessage,         \* the onMessage(message, response) calls made
    nfOnError            \* number of onError(err) calls made

decVars == <<body, pos, accumulatedContent, updateCount, shown, updates,
             completions, readerState>>

engVars == <<engMessages, engTurn>>

rxVars == <<rxApiKey, rxMessages, rxIsLoading, rxIsStreaming, rxError, rxPc,
            rxAcc, rxTurn, rxStreamReq, rxFallbackReq, rxRequests,
            rxSendResult, rxUnhandled, rxLastOp, rxCallbacks>>

txVars == <<txCalls, txSettled, txOrder, txReturned>>

mcpVars == <<mcpTransport, mcpConnected, mcpTools, mcpMessageId, mcpSessionId,
             mcpSse, mcpEndpoint, mcpPending, mcpTimers, mcpPc, mcpAwaited,
             mcpProbes, mcpSent, mcpResult, mcpOps, mcpRequested,
             mcpLife>>

chVars == <<chApiKey, chMessages, chIsLoading, chIsStreaming, chError, chTurn,
            chLastSend, chRoundsLeft>>

pqVars == <<pqEndpoint, pqMessageId, pqPending, pqTimers, pqCalls>>

teVars == <<teCalls, teResults, teMessages>>

hkVars == <<hkUrl, hkStatus, hkTools, hkHandlers, hkClient, hkTimer, hkClients,
           hkMounted, hkChanges, hkPrevious, hkClientUrl>>

impVars == <<impConnected, impTools, impMessageId, impSessionId, impPc, impSent,
            impResult, impOps>>

accVars == <<acExpected, acSent, acFrags, acCalls, acSignals, acExecuted>>

sbVars == <<sbBody, sbResult>>

nfVars == <<nfApiKey, nfMessages, nfPc, nfHandler, nfTurn, nfOnMessage, nfOnError>>

vars == <<decVars, engVars, rxVars, txVars, mcpVars, chVars, pqVars, teVars, hkVars, impVars, accVars, sbVars, nfVars>>

\* what each specification leaves alone
notDec == <<engVars, rxVars, txVars, mcpVars, chVars, pqVars, teVars, hkVars, impVars, accVars, sbVars, nfVars>>
notEng == <<decVars, rxVars, txVars, mcpVars, chVars, pqVars, teVars, hkVars, impVars, accVars, sbVars, nfVars>>
notRx == <<decVars, engVars, txVars, mcpVars, chVars, pqVars, teVars, hkVars, impVars, accVars, sbVars, nfVars>>
notTx == <<decVars, engVars, rxVars, mcpVars, chVars, pqVars, teVars, hkVars, impVars, accVars, sbVars, nfVars>>
notMcp == <<decVars, engVars, rxVars, txVars, chVars, pqVars, teVars, hkVars, impVars, accVars, sbVars, nfVars>>
notChat == <<decVars, engVars, rxVars, txVars, mcpVars, pqVars, teVars, hkVars, impVars, accVars, sbVars, nfVars>>
notPq == <<decVars, engVars, rxVars, txVars, mcpVars, chVars, teVars, hkVars, impVars, accVars, sbVars, nfVars>>
notTe == <<decVars, engVars, rxVars, txVars, mcpVars, chVars, pqVars, hkVars, impVars, accVars, sbVars, nfVars>>
notHk == <<decVars, engVars, rxVars, txVars, mcpVars, chVars, pqVars, teVars, impVars, accVars, sbVars, nfVars>>
notImp == <<decVars, engVars, rxVars, txVars, mcpVars, chVars, pqVars, teVars, hkVars, accVars, sbVars, nfVars>>
notAcc == <<decVars, engVars, rxVars, txVars, mcpVars, chVars, pqVars, teVars, hkVars, impVars, sbVars, nfVars>>
notSb == <<decVars, engVars, rxVars, txVars, mcpVars, chVars, pqVars, teVars, hkVars, impVars, accVars, nfVars>>
notNf == <<decVars, engVars, rxVars, txVars, mcpVars, chVars, pqVars, teVars, hkVars, impVars, accVars, sbVars>>

(***************************************************************************)
(* SSE bodies.  A body is a sequence of symbols; a network chunk is any    *)
(* contiguous piece of it.  PFX stands for the six characters "data: ",    *)
(* NL for a line feed, SP for a blank.  A JSON payload is spelled with     *)
(* several symbols so that a chunk boundary can fall inside it:            *)
(*   { c }      {"choices":[{"delta":{"content":"c"}}]}                    *)
(*   { # }      {"type":"comment"}                                         *)
(*   { }        a well-formed payload without delta.content                *)
(*   [DO NE]    the [DONE] sentinel                                        *)
(***************************************************************************)
PFX == "data: "
NL == "NL"
SP == "SP"
ContentChars == {"a", "b"}

DeltaLine(c) == <<PFX, "{", c, "}", NL>>
CommentLine == <<PFX, "{", "#", "}", NL>>
NoContentLine == <<PFX, "{", "}", NL>>
MalformedLine == <<PFX, "{", "a", NL>>
BlankDataLine == <<PFX, SP, NL>>
KeepAliveLine == <<":", NL>>
DoneLine == <<PFX, "[DO", "NE]", NL>>

LineKinds == {DeltaLine("a"), DeltaLine("b"), CommentLine, NoContentLine,
              MalformedLine, BlankDataLine, KeepAliveLine, DoneLine}

RECURSIVE Flatten(_)
Flatten(ls) == IF ls = <<>> THEN <<>> ELSE Head(ls) \o Flatten(Tail(ls))

\* n delta lines whose contents alternate a, b, a, ...
DeltaRun(n) == Flatten([i \in 1..n |-> DeltaLine(IF i % 2 = 1 THEN "a" ELSE "b")])

LongBodies == {DeltaRun(n) : n \in 0..MaxDeltas}
              \cup {DeltaRun(n) \o DoneLine : n \in 0..MaxDeltas}
              \cup {DeltaRun(n) \o DoneLine \o DeltaLine("b") : n \in 0..1}

ShortBodies == UNION {{Flatten(ls) : ls \in [1..n -> LineKinds]} : n \in 1..MaxLines}

Bodies == LongBodies \cup ShortBodies

(***************************************************************************)
(* The decoder, as the code computes it.                                   *)
(***************************************************************************)
\* chunk.split('\n')
RECURSIVE SplitLines(_)
SplitLines(s) ==
    IF \A i \in 1..Len(s) : s[i] # NL
    THEN <<s>>
    ELSE LET k == CHOOSE i \in 1..Len(s) :
                      s[i] = NL /\ \A j \in 1..(i - 1) : s[j] # NL
         IN  <<SubSeq(s, 1, k - 1)>> \o SplitLines(SubSeq(s, k + 1, Len(s)))

\* String.prototype.trim over the symbols that stand for white space
RECURSIVE TrimLeft(_)
TrimLeft(s) == IF s # <<>> /\ Head(s) = SP THEN TrimLeft(Tail(s)) ELSE s

RECURSIVE TrimRight(_)
TrimRight(s) ==
    IF s # <<>> /\ s[Len(s)] = SP THEN TrimRight(SubSeq(s, 1, Len(s) - 1)) ELSE s

Trim(s) == TrimRight(TrimLeft(s))

\* line.startsWith('data: ')
StartsWithData(line) == line # <<>> /\ Head(line) = PFX

\* JSON.parse(data) followed by the reads of parsed.type and
\* parsed.choices?.[0]?.delta?.content
ParseJSON(data) ==
    IF Len(data) = 3 /\ data[1] = "{" /\ data[3] = "}" /\ data[2] \in ContentChars
    THEN [ok |-> TRUE, type |-> "delta", content |-> data[2]]
    ELSE IF data = <<"{", "#", "}">>
    THEN [ok |-> TRUE, type |-> "comment", content |-> ""]
    ELSE IF data = <<"{", "}">>
    THEN [ok |-> TRUE, type |-> "other", content |-> ""]
    ELSE [ok |-> FALSE, type |-> "error", content |-> ""]

\* mutant of ShouldUpdate: every third emission is propagated
ShouldUpdateEveryThird(count) == (count + 1) % 3 = 0

\* const shouldUpdate = () => { updateCount++; return updateCount % 6 === 0; }
ShouldUpdate(count) == (count + 1) % ThrottleEvery = 0

\* mutant of FinalFlush: the final write goes through the throttle as well
FinalFlushThrottled(d, how) ==
    IF d.count % ThrottleEvery = 0
    THEN [d EXCEPT !.shown = d.acc, !.completions = d.completions + 1, !.state = how]
    ELSE [d EXCEPT !.completions = d.completions + 1, !.state = how]

\* the final, unthrottled write: onComplete(accumulatedContent) /
\* commit('updateMessage', {index, content: accumulatedContent})
FinalFlush(d, how) ==
    [d EXCEPT !.shown = d.acc, !.completions = d.completions + 1, !.state = how]

\* mutant of ProcessLine: a throttled update carries the delta alone
ProcessLineEmittingDelta(d, line) ==
    IF ~StartsWithData(line) THEN d
    ELSE LET data == Trim(Tail(line))
             parsed == ParseJSON(data)
         IN  IF data = <<"[DO", "NE]">> THEN FinalFlush(d, "sentinel")
             ELSE IF data = <<>> THEN d
             ELSE IF ~parsed.ok THEN d
             ELSE IF parsed.type = "comment" THEN d
             ELSE IF parsed.type # "delta" THEN d
             ELSE LET acc == Append(d.acc, parsed.content)
                  IN  IF ShouldUpdate(d.count)
                      THEN [d EXCEPT !.acc = acc, !.count = d.count + 1,
                                     !.shown = <<parsed.content>>,
                                     !.updates = d.updates + 1]
                      ELSE [d EXCEPT !.acc = acc, !.count = d.count + 1]

\* mutant of ProcessLine: the error of JSON.parse is not caught and ends the
\* stream
ProcessLineRaising(d, line) ==
    IF ~StartsWithData(line) THEN d
    ELSE LET data == Trim(Tail(line))
             parsed == ParseJSON(data)
         IN  IF data = <<"[DO", "NE]">> THEN FinalFlush(d, "sentinel")
             ELSE IF data = <<>> THEN d
             ELSE IF ~parsed.ok THEN [d EXCEPT !.state = "failed"]
             ELSE IF parsed.type = "comment" THEN d
             ELSE IF parsed.type # "delta" THEN d
             ELSE LET acc == Append(d.acc, parsed.content)
                  IN  IF ShouldUpdate(d.count)
                      THEN [d EXCEPT !.acc = acc, !.count = d.count + 1,
                                     !.shown = acc, !.updates = d.updates + 1]
                      ELSE [d EXCEPT !.acc = acc, !.count = d.count + 1]

\* one iteration of `for (const line of lines)`
ProcessLine(d, line) ==
    IF ~StartsWithData(line) THEN d
    ELSE LET data == Trim(Tail(line))
             parsed == ParseJSON(data)
         IN  IF data = <<"[DO", "NE]">> THEN FinalFlush(d, "sentinel")
             ELSE IF data = <<>> THEN d
             ELSE IF ~parsed.ok THEN d
             ELSE IF parsed.type = "comment" THEN d
             ELSE IF parsed.type # "delta" THEN d
             ELSE LET acc == Append(d.acc, parsed.content)
                  IN  IF ShouldUpdate(d.count)
                      THEN [d EXCEPT !.acc = acc, !.count = d.count + 1,
                                     !.shown = acc, !.updates = d.updates + 1]
                      ELSE [d EXCEPT !.acc = acc, !.count = d.count + 1]

\* mutant of ProcessLines: the loop goes on after the sentinel
RECURSIVE ProcessLinesPastSentinel(_, _)
ProcessLinesPastSentinel(d, lines) ==
    IF lines = <<>> THEN d
    ELSE ProcessLinesPastSentinel(ProcessLine(d, Head(lines)), Tail(lines))

\* the for loop over the lines of one chunk; `return` on the sentinel leaves it
RECURSIVE ProcessLines(_, _)
ProcessLines(d, lines) ==
    IF lines = <<>> \/ d.state # "reading" THEN d
    ELSE ProcessLines(ProcessLine(d, Head(lines)), Tail(lines))

ProcessChunk(d, chunk) == ProcessLines(d, SplitLines(chunk))

FreshDecoder ==
    [acc |-> <<>>, count |-> 0, shown |-> <<>>, updates |-> 0,
     completions |-> 0, state |-> "reading"]

DecoderNow ==
    [acc |-> accumulatedContent, count |-> updateCount, shown |-> shown,
     updates |-> updates, completions |-> completions, state |-> readerState]

SetDecoder(d) ==
    /\ accumulatedContent' = d.acc
    /\ updateCount' = d.count
    /\ shown' = d.shown
    /\ updates' = d.updates
    /\ completions' = d.completions
    /\ readerState' = d.state

\* the same payload delivered as one unfragmented chunk, then end of stream
DecodeWhole(b) ==
    LET d == ProcessChunk(FreshDecoder, b)
    IN  IF d.state = "reading" THEN FinalFlush(d, "eof") ELSE d

DecoderStart ==
    /\ body \in Bodies
    /\ pos = 0
    /\ accumulatedContent = <<>>
    /\ updateCount = 0
    /\ shown = <<>>
    /\ updates = 0
    /\ completions = 0
    /\ readerState = "reading"

DecoderUnused ==
    /\ body = <<>>
    /\ pos = 0
    /\ accumulatedContent = <<>>
    /\ updateCount = 0
    /\ shown = <<>>
    /\ updates = 0
    /\ completions = 0
    /\ readerState = "reading"

\* reader.read() delivers the next chunk, of any length
ReadChunk ==
    /\ readerState = "reading"
    /\ pos < Len(body)
    /\ \E k \in 1..(Len(body) - pos) :
          /\ SetDecoder(ProcessChunk(DecoderNow, SubSeq(body, pos + 1, pos + k)))
          /\ pos' = pos + k
    /\ UNCHANGED <<body, notDec>>

\* reader.read() reports done
ReadDone ==
    /\ readerState = "reading"
    /\ pos = Len(body)
    /\ SetDecoder(FinalFlush(DecoderNow, "eof"))
    /\ UNCHANGED <<body, pos, notDec>>

NextDecoder == ReadChunk \/ ReadDone

(***************************************************************************)
(* Claims about the decoder.                                               *)
(***************************************************************************)
\* C2 (as claimed): for every way of splitting the body into chunks, the
\* content accumulated when the stream is over equals the content decoded
\* from the same body delivered as one chunk.
C2_FragmentationIndependent ==
    readerState # "reading" =>
        /\ accumulatedContent = DecodeWhole(body).acc
        /\ shown = DecodeWhole(body).shown

\* C3: when the reader reports done or the [DONE] sentinel is read, exactly
\* one final update is propagated whatever the throttle counter, so the last
\* content written equals the concatenation of all deltas consumed.
C3_FinalFlushIgnoresThrottle ==
    readerState \in {"eof", "sentinel"} =>
        /\ shown = accumulatedContent
        /\ completions = 1

\* C3 witness: a stream that ended with 7 deltas consumed (7 % 6 # 0), one
\* throttled update behind it, and the final content written.
C3_Witness ==
    /\ readerState \in {"eof", "sentinel"}
    /\ updateCount = 7
    /\ updates = 1
    /\ Len(shown) = 7

(***************************************************************************)
(* ChatEngine (src/unnamed/part_000): the vanilla JS session.  Message     *)
(* contents are records: kind names the text, src the sendMessage call     *)
(* that produced it (0: none), n the number of deltas it holds.  The       *)
(* locals of makeStreamingApiRequest are dropped (acc = 0) when it returns *)
(* or throws.                                                              *)
(***************************************************************************)
EngineTurns == 1..MaxEngineTurns
UserTexts == {"hi"}

Content(kind, src, n) == [kind |-> kind, src |-> src, n |-> n]
Empty == Content("empty", 0, 0)
Msg(role, content) == [role |-> role, content |-> content]

SystemPromptText == Content("You are a helpful AI assistant.", 0, 0)
SystemPrompts == {SystemPromptText, Content("custom prompt", 0, 0)}

NoRequest == <<>>

FreshTurn ==
    [pc |-> "unused", aiMessageIndex |-> 0, acc |-> 0,
     streamReq |-> NoRequest, fallbackReq |-> NoRequest, nFallback |-> 0]

EngineUnused ==
    /\ engMessages = <<Msg("system", SystemPromptText)>>
    /\ engTurn = [t \in EngineTurns |-> FreshTurn]

\* new ChatEngine(config): setupStore(config.systemPrompt)
EngineStart ==
    /\ \E prompt \in SystemPrompts : engMessages = <<Msg("system", prompt)>>
    /\ engTurn = [t \in EngineTurns |-> FreshTurn]

\* mutation updateMessage: if (state.messages[index]) state.messages[index].content = content
\* (index is 0-based in the code, 1-based here)
UpdateMessage(msgs, index, content) ==
    IF index \in 1..Len(msgs)
    THEN [msgs EXCEPT ![index].content = content]
    ELSE msgs

\* messages: this.getMessages().slice(0, -1)  (the streaming request body)
StreamingRequestMessages(msgs) == SubSeq(msgs, 1, Len(msgs) - 1)

\* messages: this.getMessages()  (the non-streaming request body)
FallbackRequestMessages(msgs) == msgs

\* sendMessage(userMessage) up to the first await: both addMessage commits and
\* the fetch of makeStreamingApiRequest, whose body is built in the same step
EngSendMessage(t, text) ==
    /\ engTurn[t].pc = "unused"
    /\ \A u \in EngineTurns : u < t => engTurn[u].pc # "unused"
    /\ LET withUser == Append(engMessages, Msg("user", Content(text, t, 0)))
           aiIndex == Len(withUser) + 1
           withAi == Append(withUser, Msg("assistant", Empty))
       IN  /\ engMessages' = withAi
           /\ engTurn' = [engTurn EXCEPT ![t] =
                  [@ EXCEPT !.pc = "fetching", !.aiMessageIndex = aiIndex,
                            !.streamReq = StreamingRequestMessages(withAi)]]
    /\ UNCHANGED notEng

\* the catch of sendMessage: makeApiRequest() is called at once, with the
\* messages of the store as they are then
EngStartFallback(t) ==
    engTurn' = [engTurn EXCEPT ![t] =
        [@ EXCEPT !.pc = "fallback", !.acc = 0,
                  !.fallbackReq = FallbackRequestMessages(engMessages),
                  !.nFallback = @ + 1]]

\* fetch rejects, or the response is not ok: makeStreamingApiRequest throws
EngFetchFails(t) ==
    /\ engTurn[t].pc = "fetching"
    /\ EngStartFallback(t)
    /\ UNCHANGED <<engMessages, notEng>>

\* the response is ok: the reader loop starts
EngFetchOk(t) ==
    /\ engTurn[t].pc = "fetching"
    /\ engTurn' = [engTurn EXCEPT ![t].pc = "streaming"]
    /\ UNCHANGED <<engMessages, notEng>>

\* a chunk with one content delta: accumulate, and commit every 6th
EngStreamDelta(t) ==
    /\ engTurn[t].pc = "streaming"
    /\ engTurn[t].acc < MaxStreamDeltas
    /\ engTurn' = [engTurn EXCEPT ![t].acc = @ + 1]
    /\ engMessages' =
          IF ShouldUpdate(engTurn[t].acc)
          THEN UpdateMessage(engMessages, engTurn[t].aiMessageIndex,
                             Content("stream", t, engTurn[t].acc + 1))
          ELSE engMessages
    /\ UNCHANGED notEng

\* reader done, or the [DONE] sentinel: the final commit; sendMessage resolves
EngStreamEnd(t) ==
    /\ engTurn[t].pc = "streaming"
    /\ engMessages' = UpdateMessage(engMessages, engTurn[t].aiMessageIndex,
                                    Content("stream", t, engTurn[t].acc))
    /\ engTurn' = [engTurn EXCEPT ![t] = [@ EXCEPT !.pc = "resolved", !.acc = 0]]
    /\ UNCHANGED notEng

\* reader.read() rejects in mid-stream: rethrown, caught by sendMessage
EngStreamReadFails(t) ==
    /\ engTurn[t].pc = "streaming"
    /\ EngStartFallback(t)
    /\ UNCHANGED <<engMessages, notEng>>

\* the non-streaming request answers: its content is committed
EngFallbackOk(t) ==
    /\ engTurn[t].pc = "fallback"
    /\ engMessages' = UpdateMessage(engMessages, engTurn[t].aiMessageIndex,
                                    Content("fallback", t, 0))
    /\ engTurn' = [engTurn EXCEPT ![t].pc = "resolved"]
    /\ UNCHANGED notEng

\* the non-streaming request fails too: `Error: ${message}` is committed and
\* the error rethrown to the caller
EngFallbackFails(t) ==
    /\ engTurn[t].pc = "fallback"
    /\ engMessages' = UpdateMessage(engMessages, engTurn[t].aiMessageIndex,
                                    Content("Error: fallback failed", t, 0))
    /\ engTurn' = [engTurn EXCEPT ![t].pc = "rejected"]
    /\ UNCHANGED notEng

EngClearMessagesToDefault ==
    /\ Len(engMessages) > 1
    /\ engMessages' = <<Msg("system", SystemPromptText)>>
    /\ UNCHANGED <<engTurn, notEng>>

\* mutation clearMessages
EngClearMessages ==
    /\ Len(engMessages) > 1
    /\ engMessages' = <<Msg("system", engMessages[1].content)>>
    /\ UNCHANGED <<engTurn, notEng>>

NextEngine ==
    \/ \E t \in EngineTurns, text \in UserTexts : EngSendMessage(t, text)
    \/ \E t \in EngineTurns : EngFetchFails(t)
    \/ \E t \in EngineTurns : EngFetchOk(t)
    \/ \E t \in EngineTurns : EngStreamDelta(t)
    \/ \E t \in EngineTurns : EngStreamEnd(t)
    \/ \E t \in EngineTurns : EngStreamReadFails(t)
    \/ \E t \in EngineTurns : EngFallbackOk(t)
    \/ \E t \in EngineTurns : EngFallbackFails(t)
    \/ EngClearMessages

(***************************************************************************)
(* react-llm-chat: useChatEngine (src/react-llm-chat/src/LLMChatInterface  *)
(* .jsx 140-316) over OpenRouterClient (utils/apiClient.js).  A call of    *)
(* sendMessage sees the state of the latest render.                        *)
(***************************************************************************)
UserInputs == {"hi", " hi ", "  "}

\* userMessage.trim()
TrimText(text) ==
    CASE text = " hi " -> "hi"
      [] text = "  " -> ""
      [] OTHER -> text

RxSystemPrompt == Content("You are a helpful AI assistant. Please use dollar signs", 0, 0)

ReactUnused ==
    /\ rxApiKey = TRUE
    /\ rxMessages = <<>>
    /\ rxIsLoading = FALSE
    /\ rxIsStreaming = FALSE
    /\ rxError = "null"
    /\ rxPc = "idle"
    /\ rxAcc = 0
    /\ rxTurn = 0
    /\ rxStreamReq = NoRequest
    /\ rxFallbackReq = NoRequest
    /\ rxRequests = 0
    /\ rxSendResult = "none"
    /\ rxUnhandled = FALSE
    /\ rxLastOp = "none"
    /\ rxCallbacks = <<>>

ReactStart ==
    /\ rxApiKey \in BOOLEAN
    /\ rxMessages = <<>>
    /\ rxIsLoading = FALSE
    /\ rxIsStreaming = FALSE
    /\ rxError = "null"
    /\ rxPc = "idle"
    /\ rxAcc = 0
    /\ rxTurn = 0
    /\ rxStreamReq = NoRequest
    /\ rxFallbackReq = NoRequest
    /\ rxRequests = 0
    /\ rxSendResult = "none"
    /\ rxUnhandled = FALSE
    /\ rxLastOp = "none"
    /\ rxCallbacks = <<>>

\* setMessages(prev => ...): replace the content of the last message if it is
\* an assistant message, else leave the list as it is
SetLastAssistant(msgs, content) ==
    IF msgs # <<>> /\ msgs[Len(msgs)].role = "assistant"
    THEN [msgs EXCEPT ![Len(msgs)].content = content]
    ELSE msgs

\* [{role: system, content: systemPrompt}, ...messages.map(...), {role: user, ...}]
RxApiMessages(msgs, text) ==
    <<Msg("system", RxSystemPrompt)>> \o msgs
        \o <<Msg("user", Content(TrimText(text), rxTurn + 1, 0))>>

\* sendMessage throws before touching any state
RxSendRefused(text) ==
    /\ \/ /\ ~rxApiKey
          /\ rxLastOp' = "API key is required"
       \/ /\ rxApiKey
          /\ TrimText(text) = ""
          /\ rxLastOp' = "Message cannot be empty"
       \/ /\ rxApiKey
          /\ TrimText(text) # ""
          /\ rxIsLoading \/ rxIsStreaming
          /\ rxLastOp' = "Already processing a message"
    /\ UNCHANGED <<rxApiKey, rxMessages, rxIsLoading, rxIsStreaming, rxError,
                   rxPc, rxAcc, rxTurn, rxStreamReq, rxFallbackReq, rxRequests,
                   rxSendResult, rxUnhandled, rxCallbacks, notRx>>

\* mutant of RxSendMessage: the API key is not asked for
RxSendMessageWithoutKey(text) ==
    /\ TrimText(text) # ""
    /\ ~(rxIsLoading \/ rxIsStreaming)
    /\ rxTurn < MaxReactTurns
    /\ rxError' = "null"
    /\ rxMessages' = rxMessages
          \o <<Msg("user", Content(TrimText(text), rxTurn + 1, 0)),
               Msg("assistant", Empty)>>
    /\ rxStreamReq' = RxApiMessages(rxMessages, text)
    /\ rxFallbackReq' = NoRequest
    /\ rxRequests' = 1
    /\ rxIsStreaming' = TRUE
    /\ rxIsLoading' = FALSE
    /\ rxPc' = "streaming"
    /\ rxAcc' = 0
    /\ rxTurn' = rxTurn + 1
    /\ rxSendResult' = "pending"
    /\ rxUnhandled' = FALSE
    /\ rxLastOp' = "accepted"
    /\ rxCallbacks' = <<>>
    /\ UNCHANGED <<rxApiKey, notRx>>

\* sendMessage accepted: user message and placeholder appended, streaming
\* request issued (streamCompletion runs to its fetch in the same step)
RxSendMessage(text) ==
    /\ rxApiKey
    /\ TrimText(text) # ""
    /\ ~(rxIsLoading \/ rxIsStreaming)
    /\ rxTurn < MaxReactTurns
    /\ rxError' = "null"
    /\ rxMessages' = rxMessages
          \o <<Msg("user", Content(TrimText(text), rxTurn + 1, 0)),
               Msg("assistant", Empty)>>
    /\ rxStreamReq' = RxApiMessages(rxMessages, text)
    /\ rxFallbackReq' = NoRequest
    /\ rxRequests' = 1
    /\ rxIsStreaming' = TRUE
    /\ rxIsLoading' = FALSE
    /\ rxPc' = "streaming"
    /\ rxAcc' = 0
    /\ rxTurn' = rxTurn + 1
    /\ rxSendResult' = "pending"
    /\ rxUnhandled' = FALSE
    /\ rxLastOp' = "accepted"
    /\ rxCallbacks' = <<>>
    /\ UNCHANGED <<rxApiKey, notRx>>

\* a content delta is accumulated; onChunk (every 6th) only touches the DOM
RxStreamDelta ==
    /\ rxPc = "streaming"
    /\ rxAcc < MaxStreamDeltas
    /\ rxAcc' = rxAcc + 1
    /\ UNCHANGED <<rxApiKey, rxMessages, rxIsLoading, rxIsStreaming, rxError,
                   rxPc, rxTurn, rxStreamReq, rxFallbackReq, rxRequests,
                   rxSendResult, rxUnhandled, rxLastOp, rxCallbacks, notRx>>

\* done or [DONE]: onComplete(accumulatedContent); streamCompletion returns
\* and the awaiting sendMessage resolves
RxStreamEnd ==
    /\ rxPc = "streaming"
    /\ rxIsStreaming' = FALSE
    /\ rxMessages' = SetLastAssistant(rxMessages, Content("stream", rxTurn, rxAcc))
    /\ rxPc' = "idle"
    /\ rxAcc' = 0
    /\ rxSendResult' = "resolved"
    /\ rxCallbacks' = Append(rxCallbacks, "onComplete")
    /\ UNCHANGED <<rxApiKey, rxIsLoading, rxError, rxTurn, rxStreamReq,
                   rxFallbackReq, rxRequests, rxUnhandled, rxLastOp, notRx>>

\* how sendMessage settles once streamCompletion caught a failure and called
\* onError(error): the promise onError returns is not awaited
\* (apiClient.js:99-102), so the await in sendMessage completes normally
RxAfterOnErrorCalled == "resolved"

\* fetch rejects, the response is not ok, or a read fails: streamCompletion's
\* catch calls onError, which runs to its await of getCompletion(apiMessages)
RxStreamFails ==
    /\ rxPc = "streaming"
    /\ rxIsStreaming' = FALSE
    /\ rxIsLoading' = TRUE
    /\ rxFallbackReq' = rxStreamReq
    /\ rxRequests' = rxRequests + 1
    /\ rxPc' = "fallback"
    /\ rxAcc' = 0
    /\ rxSendResult' = RxAfterOnErrorCalled
    /\ rxCallbacks' = Append(rxCallbacks, "onError")
    /\ UNCHANGED <<rxApiKey, rxMessages, rxError, rxTurn, rxStreamReq,
                   rxUnhandled, rxLastOp, notRx>>

\* done or [DONE], and the onComplete callback raises after its state updates
\* (the registered onComplete renders the content and touches the DOM): the
\* call is inside streamCompletion's try, so its catch calls onError(error),
\* which runs to its await of getCompletion(apiMessages)
RxStreamEndRaises ==
    /\ rxPc = "streaming"
    /\ rxIsStreaming' = FALSE
    /\ rxMessages' = SetLastAssistant(rxMessages, Content("stream", rxTurn, rxAcc))
    /\ rxIsLoading' = TRUE
    /\ rxFallbackReq' = rxStreamReq
    /\ rxRequests' = rxRequests + 1
    /\ rxPc' = "fallback"
    /\ rxAcc' = 0
    /\ rxSendResult' = RxAfterOnErrorCalled
    /\ rxCallbacks' = rxCallbacks \o <<"onComplete", "onError">>
    /\ UNCHANGED <<rxApiKey, rxError, rxTurn, rxStreamReq, rxUnhandled,
                   rxLastOp, notRx>>

\* getCompletion answers
RxFallbackOk ==
    /\ rxPc = "fallback"
    /\ rxMessages' = SetLastAssistant(rxMessages, Content("fallback", rxTurn, 0))
    /\ rxIsLoading' = FALSE
    /\ rxPc' = "idle"
    /\ UNCHANGED <<rxApiKey, rxIsStreaming, rxError, rxAcc, rxTurn, rxStreamReq,
                   rxFallbackReq, rxRequests, rxSendResult, rxUnhandled,
                   rxLastOp, rxCallbacks, notRx>>

\* getCompletion throws: the error text is written, setError, and the error
\* is thrown out of onError; it reaches sendMessage only if that still awaits
RxFallbackFails ==
    /\ rxPc = "fallback"
    /\ rxMessages' = SetLastAssistant(rxMessages,
                                      Content("Error: fallback failed", rxTurn, 0))
    /\ rxError' = "fallbackError"
    /\ rxIsLoading' = FALSE
    /\ rxPc' = "failed"
    /\ IF rxSendResult = "pending"
       THEN rxSendResult' = "rejected" /\ rxUnhandled' = rxUnhandled
       ELSE rxSendResult' = rxSendResult /\ rxUnhandled' = TRUE
    /\ UNCHANGED <<rxApiKey, rxIsStreaming, rxAcc, rxTurn, rxStreamReq,
                   rxFallbackReq, rxRequests, rxLastOp, rxCallbacks,
                   notRx>>

\* clearMessages
RxClearMessages ==
    /\ rxMessages # <<>> \/ rxError # "null"
    /\ rxMessages' = <<>>
    /\ rxError' = "null"
    /\ UNCHANGED <<rxApiKey, rxIsLoading, rxIsStreaming, rxPc, rxAcc, rxTurn,
                   rxStreamReq, rxFallbackReq, rxRequests, rxSendResult,
                   rxUnhandled, rxLastOp, rxCallbacks, notRx>>

NextReact ==
    \/ \E text \in UserInputs : RxSendRefused(text)
    \/ \E text \in UserInputs : RxSendMessage(text)
    \/ RxStreamDelta
    \/ RxStreamEnd
    \/ RxStreamEndRaises
    \/ RxStreamFails
    \/ RxFallbackOk
    \/ RxFallbackFails
    \/ RxClearMessages

(***************************************************************************)
(* ToolExecutor.execute(toolCalls, handlers).  The hook that implements it *)
(* (hooks/useToolManager.js) is not among the sources; it is modelled from *)
(* section 4.3 of the specification.  Its callers are in                   *)
(* src/unnamed/part_004 (handleToolCallsInResponse, onToolCall).           *)
(***************************************************************************)
Text(kind) == Content(kind, 0, 1)

ToolNames == {"add_numbers", "multiply_numbers", "no_such_tool"}

\* the registry: name -> handler
Handlers == {"add_numbers", "multiply_numbers"}

CallId(i) == CASE i = 1 -> "call_1" [] i = 2 -> "call_2" [] i = 3 -> "call_3"
               [] OTHER -> "call_n"

ToolCall(i, name, args) ==
    [id |-> CallId(i), name |-> name, arguments |-> args]

\* the content a handler hands back for a call, as JSON text
HandlerResult(call) ==
    IF call.name = "add_numbers" THEN "{\"result\":5}" ELSE "{\"result\":6}"

UnknownToolError == "{\"error\":\"Unknown tool\"}"
HandlerThrewError == "{\"error\":\"handler failed\"}"

\* the result of one call: unknown tool, captured throw, or the handler's value
ResultFor(call, outcome) ==
    [tool_call_id |-> call.id,
     content |-> IF call.name \notin Handlers THEN Text(UnknownToolError)
                 ELSE IF outcome = "throws" THEN Text(HandlerThrewError)
                 ELSE Text(HandlerResult(call))]

\* mutant of CollectResults: results pushed in the order the handlers completed
CollectByArrival(calls, settled, order) ==
    [k \in 1..Len(order) |-> ResultFor(calls[order[k]], settled[order[k]])]

\* the array execute returns: slot i holds the result of call i
CollectResults(calls, settled, order) ==
    [i \in 1..Len(calls) |-> ResultFor(calls[i], settled[i])]

\* execute as one step, for the sessions that await it
ExecuteTools(calls, outcomes) ==
    CollectResults(calls, outcomes, [i \in 1..Len(calls) |-> i])

CallLists ==
    UNION {{[i \in 1..n |-> ToolCall(i, names[i], "{\"a\":2,\"b\":3}")] :
               names \in [1..n -> ToolNames]} : n \in 1..MaxCalls}

ToolsUnused ==
    /\ txCalls = <<>>
    /\ txSettled = <<>>
    /\ txOrder = <<>>
    /\ txReturned = <<>>

\* execute(toolCalls, handlers): every call is dispatched before any is awaited
ToolsStart ==
    /\ txCalls \in CallLists
    /\ txSettled = [i \in 1..Len(txCalls) |-> "pending"]
    /\ txOrder = <<>>
    /\ txReturned = <<>>

\* the handler of call i settles (an unknown tool settles with its error)
TxHandlerSettles(i, outcome) ==
    /\ i \in 1..Len(txCalls)
    /\ txSettled[i] = "pending"
    /\ txCalls[i].name \notin Handlers => outcome = "throws"
    /\ txSettled' = [txSettled EXCEPT ![i] = outcome]
    /\ txOrder' = Append(txOrder, i)
    /\ UNCHANGED <<txCalls, txReturned, notTx>>

\* all handlers have settled: execute returns the result array
TxReturn ==
    /\ txReturned = <<>>
    /\ \A i \in 1..Len(txCalls) : txSettled[i] # "pending"
    /\ txReturned' = CollectResults(txCalls, txSettled, txOrder)
    /\ UNCHANGED <<txCalls, txSettled, txOrder, notTx>>

NextTools ==
    \/ \E i \in 1..MaxCalls, outcome \in {"returns", "throws"} :
          TxHandlerSettles(i, outcome)
    \/ TxReturn

(***************************************************************************)
(* MCPClient (src/unnamed/part_009): transport detection, the handshake of *)
(* connect(), callTool and disconnect.  The server's answers are the       *)
(* inputs: every probe, POST and reply is chosen among the possible ones.  *)
(***************************************************************************)
TransportKinds == {"auto", "streamable-http", "sse-legacy"}
PostProbeAnswers == {"ok", "notOk", "throws"}
GetProbeAnswers == {"okEventStream", "okOtherType", "notOk", "throws"}
NoTransportError == "No supported MCP transport detected"
NotConnectedError == "Not connected to MCP server"
ServerToolLists == {<<>>, <<"add_numbers">>}
NoProbes == [post |-> "notSent", get |-> "notSent"]
NoResult == [success |-> FALSE, error |-> "pending"]

\* mutant of DetectTransport: the GET probe's content type is not the one tested
DetectTransportWrongContentType(postAnswer, getAnswer) ==
    IF postAnswer = "ok" THEN "streamable-http"
    ELSE IF getAnswer = "okOtherType" THEN "sse-legacy"
    ELSE "none"

\* mutant of DetectTransport: streamable-http is assumed when both probes failed
DetectTransportDefaulting(postAnswer, getAnswer) ==
    IF postAnswer = "ok" THEN "streamable-http"
    ELSE IF getAnswer = "okEventStream" THEN "sse-legacy"
    ELSE IF getAnswer = "notSent" THEN "none"
    ELSE "streamable-http"

\* detectTransport: the transport its two probes select ("none": it throws)
DetectTransport(postAnswer, getAnswer) ==
    IF postAnswer = "ok" THEN "streamable-http"
    ELSE IF getAnswer = "okEventStream" THEN "sse-legacy"
    ELSE "none"

\* the session headers a request or notification carries
SessionHeaderOnEveryRequest(method) == mcpSessionId

SessionHeader(method) ==
    IF mcpSessionId # "null" /\ method # "initialize" THEN mcpSessionId ELSE "null"

Request(method, id) ==
    [method |-> method, id |-> id, session |-> SessionHeader(method)]

McpUnused ==
    /\ mcpTransport = "auto"
    /\ mcpConnected = FALSE
    /\ mcpTools = <<>>
    /\ mcpMessageId = 1
    /\ mcpSessionId = "null"
    /\ mcpSse = "null"
    /\ mcpEndpoint = "null"
    /\ mcpPending = {}
    /\ mcpTimers = {}
    /\ mcpPc = "idle"
    /\ mcpAwaited = 0
    /\ mcpProbes = NoProbes
    /\ mcpSent = <<>>
    /\ mcpResult = NoResult
    /\ mcpOps = 0
    /\ mcpRequested = "auto"
    /\ mcpLife = "new"

\* new MCPClient(serverUrl, transport)
McpStart ==
    /\ mcpTransport \in TransportKinds
    /\ mcpConnected = FALSE
    /\ mcpTools = <<>>
    /\ mcpMessageId = 1
    /\ mcpSessionId = "null"
    /\ mcpSse = "null"
    /\ mcpEndpoint = "null"
    /\ mcpPending = {}
    /\ mcpTimers = {}
    /\ mcpPc = "idle"
    /\ mcpAwaited = 0
    /\ mcpProbes = NoProbes
    /\ mcpSent = <<>>
    /\ mcpResult = NoResult
    /\ mcpOps = 0
    /\ mcpRequested = mcpTransport
    /\ mcpLife = "new"

mcpFields == <<mcpTransport, mcpTools, mcpSessionId, mcpSse, mcpEndpoint>>

\* sendMessage(method): allocate the id, register the correlator and its timer
\* (sse-legacy), send the POST and wait
McpSendMessage(method, transport, sent, pcPost, pcReply) ==
    /\ mcpMessageId' = mcpMessageId + 1
    /\ mcpSent' = Append(sent, Request(method, mcpMessageId))
    /\ mcpAwaited' = mcpMessageId
    /\ IF transport = "sse-legacy"
         THEN /\ mcpPending' = mcpPending \cup {mcpMessageId}
              /\ mcpTimers' = mcpTimers \cup {mcpMessageId}
              /\ mcpPc' = pcPost
         ELSE /\ UNCHANGED <<mcpPending, mcpTimers>>
              /\ mcpPc' = pcReply

\* connect() once the transport is known: open the EventSource (sse-legacy)
\* or send initialize (streamable-http)
McpBeginTransport(transport, sent) ==
    IF transport = "sse-legacy"
      THEN /\ mcpSse' = "connecting"
           /\ mcpPc' = "sseOpening"
           /\ mcpSent' = sent
           /\ UNCHANGED <<mcpMessageId, mcpAwaited, mcpPending, mcpTimers>>
      ELSE /\ McpSendMessage("initialize", transport, sent, "initPost", "initReply")
           /\ UNCHANGED mcpSse

\* the catch block of connect()
McpConnectFails(error) ==
    /\ mcpConnected' = FALSE
    /\ mcpResult' = [success |-> FALSE, error |-> error]
    /\ mcpPc' = "idle"
    /\ mcpAwaited' = 0

\* callTool rethrows
McpCallFails(error) ==
    /\ mcpResult' = [success |-> FALSE, error |-> error]
    /\ mcpPc' = "idle"
    /\ mcpAwaited' = 0
    /\ UNCHANGED mcpConnected

\* a request of connect() or of callTool fails
McpRequestFails(error) ==
    IF mcpPc \in {"callPost", "callReply"}
      THEN McpCallFails(error)
      ELSE McpConnectFails(error)

\* connect(): with 'auto' the POST probe goes out; otherwise the transport
\* named at construction is used as it is
McpConnect ==
    /\ mcpPc = "idle"
    /\ mcpOps < MaxMcpOps
    /\ mcpOps' = mcpOps + 1
    /\ mcpResult' = NoResult
    /\ mcpProbes' = NoProbes
    /\ IF mcpTransport = "auto"
         THEN /\ mcpSent' = <<Request("probe POST", TransportTestId)>>
              /\ mcpPc' = "probePost"
              /\ UNCHANGED <<mcpSse, mcpMessageId, mcpAwaited, mcpPending, mcpTimers>>
         ELSE McpBeginTransport(mcpTransport, <<>>)
    /\ mcpLife' = "connect"
    /\ UNCHANGED <<mcpTransport, mcpConnected, mcpTools, mcpSessionId, mcpEndpoint,
                   mcpRequested, notMcp>>

\* detectTransport: the POST probe is answered; the GET probe follows unless
\* the POST probe settled the transport
McpPostProbeAnswered(answer) ==
    /\ mcpPc = "probePost"
    /\ mcpProbes' = [mcpProbes EXCEPT !.post = answer]
    /\ IF DetectTransport(answer, "notSent") # "none"
         THEN /\ mcpTransport' = DetectTransport(answer, "notSent")
              /\ McpBeginTransport(mcpTransport', mcpSent)
         ELSE /\ mcpSent' = Append(mcpSent, Request("probe GET", 0))
              /\ mcpPc' = "probeGet"
              /\ UNCHANGED <<mcpTransport, mcpSse, mcpMessageId, mcpAwaited,
                             mcpPending, mcpTimers>>
    /\ UNCHANGED <<mcpConnected, mcpTools, mcpSessionId, mcpEndpoint, mcpResult,
                   mcpOps, mcpRequested, mcpLife, notMcp>>

\* detectTransport: the GET probe is answered; with no transport detected
\* connect() ends in its catch block
McpGetProbeAnswered(answer) ==
    /\ mcpPc = "probeGet"
    /\ mcpProbes' = [mcpProbes EXCEPT !.get = answer]
    /\ IF DetectTransport(mcpProbes.post, answer) # "none"
         THEN /\ mcpTransport' = DetectTransport(mcpProbes.post, answer)
              /\ McpBeginTransport(mcpTransport', mcpSent)
              /\ UNCHANGED <<mcpConnected, mcpResult>>
         ELSE /\ McpConnectFails(NoTransportError)
              /\ UNCHANGED <<mcpTransport, mcpSse, mcpMessageId, mcpPending,
                             mcpTimers, mcpSent>>
    /\ UNCHANGED <<mcpTools, mcpSessionId, mcpEndpoint, mcpOps, mcpRequested, mcpLife, notMcp>>

\* connectSSELegacy: eventSource.onopen clears the 10 s timer; the endpoint
\* event is still to come
McpSseOnOpen ==
    /\ mcpPc = "sseOpening"
    /\ mcpSse = "connecting"
    /\ mcpSse' = "open"
    /\ mcpPc' = "sseWaiting"
    /\ UNCHANGED <<mcpTransport, mcpConnected, mcpTools, mcpSessionId, mcpEndpoint,
                   mcpMessageId, mcpPending, mcpTimers, mcpAwaited, mcpProbes,
                   mcpSent, mcpResult, mcpOps, mcpRequested, mcpLife, notMcp>>

\* connectSSELegacy: the endpoint event arrives (after the open event, in the
\* same step or later) and initialize is sent, or the EventSource errors, or
\* the 10 s timer, if onopen has not cleared it, fires
McpSseOpened(outcome) ==
    /\ mcpPc \in {"sseOpening", "sseWaiting"}
    /\ outcome # "timeout" => mcpSse \in {"connecting", "open"}
    /\ outcome = "timeout" => mcpPc = "sseOpening"
    /\ IF outcome = "endpoint"
         THEN /\ mcpEndpoint' = "/messages"
              /\ mcpSse' = "open"
              /\ McpSendMessage("initialize", "sse-legacy", mcpSent,
                                "initPost", "initReply")
              /\ UNCHANGED <<mcpConnected, mcpResult>>
         ELSE /\ mcpSse' = IF mcpSse = "null" THEN "null" ELSE "closed"
              /\ McpConnectFails(IF outcome = "error" THEN "SSE connection failed"
                                 ELSE "SSE connection timeout")
              /\ UNCHANGED <<mcpEndpoint, mcpMessageId, mcpPending, mcpTimers,
                             mcpSent>>
    /\ UNCHANGED <<mcpTransport, mcpTools, mcpSessionId, mcpProbes, mcpOps, mcpRequested, mcpLife, notMcp>>

PostPhase == {"initPost", "listPost", "callPost"}
ReplyOf(pc) ==
    CASE pc = "initPost" -> "initReply"
      [] pc = "listPost" -> "listReply"
      [] OTHER -> "callReply"

\* sendMessageSSELegacy: the POST carrying the request is answered
McpPostAnswered(answer) ==
    /\ mcpPc \in PostPhase
    /\ CASE answer = "ok" ->
              /\ mcpPc' = ReplyOf(mcpPc)
              /\ UNCHANGED <<mcpPending, mcpConnected, mcpResult, mcpAwaited>>
         [] answer = "notOk" ->
              /\ mcpPending' = mcpPending \ {mcpAwaited}
              /\ McpRequestFails("HTTP error")
         [] OTHER ->
              /\ McpRequestFails("Failed to fetch")
              /\ UNCHANGED mcpPending
    /\ UNCHANGED <<mcpTransport, mcpTools, mcpSessionId, mcpSse, mcpEndpoint,
                   mcpMessageId, mcpTimers, mcpProbes, mcpSent, mcpOps, mcpRequested, mcpLife, notMcp>>

\* the reply settles the awaited request: handleSSEMessage and the resolver
\* of waitForSSEResponse (sse-legacy), or the response body (streamable-http)
McpSettle ==
    IF mcpTransport = "sse-legacy"
      THEN /\ mcpPending' = mcpPending \ {mcpAwaited}
           /\ mcpTimers' = mcpTimers \ {mcpAwaited}
      ELSE UNCHANGED <<mcpPending, mcpTimers>>

ReplyAnswers == {"result", "resultWithSession", "rpcError", "noReply"}

\* sse-legacy: a reply is a message event, which needs the EventSource and
\* the pending entry of the request; without them only the timer is left
ReplyCanArrive(answer) ==
    mcpTransport = "sse-legacy" /\ answer # "noReply" => mcpAwaited \in mcpPending

\* sendMessageSSELegacy and sendNotificationSSELegacy throw without an endpoint
NoEndpoint == mcpTransport = "sse-legacy" /\ mcpEndpoint = "null"
NoEndpointError == "SSE Legacy: No message endpoint available"

\* what a reply that carries no result makes the caller throw
ReplyError(answer) ==
    IF answer = "rpcError" THEN "JSON-RPC error"
    ELSE IF mcpTransport = "sse-legacy" THEN "SSE response timeout"
    ELSE "HTTP error"

\* connect() step 1: the reply to initialize; on success the initialized
\* notification is sent
McpInitializeAnswered(answer) ==
    /\ mcpPc = "initReply"
    /\ ReplyCanArrive(answer)
    /\ McpSettle
    /\ IF answer \in {"result", "resultWithSession"}
         THEN /\ mcpSessionId' = IF answer = "resultWithSession" THEN "session-1"
                                 ELSE mcpSessionId
              /\ IF NoEndpoint
                   THEN /\ McpConnectFails(NoEndpointError)
                        /\ UNCHANGED mcpSent
                   ELSE /\ mcpSent' = Append(mcpSent,
                               [method |-> "notifications/initialized", id |-> 0,
                                session |-> mcpSessionId'])
                        /\ mcpPc' = "notify"
                        /\ mcpAwaited' = 0
                        /\ UNCHANGED <<mcpConnected, mcpResult>>
         ELSE /\ McpConnectFails(ReplyError(answer))
              /\ UNCHANGED <<mcpSessionId, mcpSent>>
    /\ UNCHANGED <<mcpTransport, mcpTools, mcpSse, mcpEndpoint, mcpMessageId,
                   mcpProbes, mcpOps, mcpRequested, mcpLife, notMcp>>

\* the POST of the notification is answered; streamable-http goes on to
\* tools/list, sse-legacy waits 500 ms first
McpNotificationAnswered(answer) ==
    /\ mcpPc = "notify"
    /\ IF answer = "ok"
         THEN /\ IF mcpTransport = "sse-legacy"
                   THEN /\ mcpPc' = "delay"
                        /\ UNCHANGED <<mcpMessageId, mcpSent, mcpAwaited,
                                       mcpPending, mcpTimers>>
                   ELSE McpSendMessage("tools/list", mcpTransport, mcpSent,
                                       "listPost", "listReply")
              /\ UNCHANGED <<mcpConnected, mcpResult>>
         ELSE /\ McpConnectFails(IF answer = "notOk" THEN "HTTP error"
                                 ELSE "Failed to fetch")
              /\ UNCHANGED <<mcpMessageId, mcpSent, mcpPending, mcpTimers>>
    /\ UNCHANGED <<mcpTransport, mcpTools, mcpSessionId, mcpSse, mcpEndpoint,
                   mcpProbes, mcpOps, mcpRequested, mcpLife, notMcp>>

\* the 500 ms delay of sse-legacy is over: tools/list is sent
McpDelayElapsed ==
    /\ mcpPc = "delay"
    /\ IF NoEndpoint
         THEN /\ McpConnectFails(NoEndpointError)
              /\ UNCHANGED <<mcpMessageId, mcpSent, mcpPending, mcpTimers>>
         ELSE /\ McpSendMessage("tools/list", mcpTransport, mcpSent,
                                 "listPost", "listReply")
              /\ UNCHANGED <<mcpConnected, mcpResult>>
    /\ UNCHANGED <<mcpFields, mcpProbes, mcpOps, mcpRequested, mcpLife, notMcp>>

\* connect() step 2: the reply to tools/list; on success the client is connected
McpToolsListAnswered(answer, tools) ==
    /\ mcpPc = "listReply"
    /\ ReplyCanArrive(answer)
    /\ McpSettle
    /\ IF answer = "result"
         THEN /\ mcpTools' = tools
              /\ mcpConnected' = TRUE
              /\ mcpResult' = [success |-> TRUE, error |-> "null"]
              /\ mcpPc' = "idle"
              /\ mcpAwaited' = 0
         ELSE /\ McpConnectFails(ReplyError(answer))
              /\ UNCHANGED mcpTools
    /\ UNCHANGED <<mcpTransport, mcpSessionId, mcpSse, mcpEndpoint, mcpMessageId,
                   mcpProbes, mcpSent, mcpOps, mcpRequested, mcpLife, notMcp>>

\* callTool(toolName, args)
McpCallTool ==
    /\ mcpPc = "idle"
    /\ mcpOps < MaxMcpOps
    /\ mcpOps' = mcpOps + 1
    /\ IF mcpConnected
         THEN /\ McpSendMessage("tools/call", mcpTransport, <<>>,
                                "callPost", "callReply")
              /\ mcpResult' = NoResult
         ELSE /\ mcpResult' = [success |-> FALSE, error |-> NotConnectedError]
              /\ mcpSent' = <<>>
              /\ UNCHANGED <<mcpMessageId, mcpAwaited, mcpPending, mcpTimers, mcpPc>>
    /\ mcpProbes' = NoProbes
    /\ UNCHANGED <<mcpFields, mcpConnected, mcpRequested, mcpLife, notMcp>>

\* the reply to tools/call
McpCallAnswered(answer) ==
    /\ mcpPc = "callReply"
    /\ ReplyCanArrive(answer)
    /\ McpSettle
    /\ IF answer = "result"
         THEN /\ mcpResult' = [success |-> TRUE, error |-> "null"]
              /\ mcpPc' = "idle"
              /\ mcpAwaited' = 0
              /\ UNCHANGED mcpConnected
         ELSE McpCallFails(ReplyError(answer))
    /\ UNCHANGED <<mcpFields, mcpMessageId, mcpProbes, mcpSent, mcpOps, mcpRequested, mcpLife, notMcp>>

\* the timer of a request nobody waits for any more fires
McpLateTimeout(id) ==
    /\ id \in mcpTimers
    /\ id # mcpAwaited
    /\ mcpTimers' = mcpTimers \ {id}
    /\ mcpPending' = mcpPending \ {id}
    /\ UNCHANGED <<mcpFields, mcpConnected, mcpMessageId, mcpPc, mcpAwaited,
                   mcpProbes, mcpSent, mcpResult, mcpOps, mcpRequested, mcpLife, notMcp>>

\* mutant of McpDisconnect: the id counter starts again at 1
McpDisconnectResettingIds ==
    /\ mcpOps < MaxMcpOps
    /\ mcpOps' = mcpOps + 1
    /\ mcpSse' = "null"
    /\ mcpEndpoint' = "null"
    /\ mcpPending' = {}
    /\ mcpConnected' = FALSE
    /\ mcpTools' = <<>>
    /\ mcpSessionId' = "null"
    /\ mcpLife' = "disconnect"
    /\ mcpMessageId' = 1
    /\ UNCHANGED <<mcpTransport, mcpTimers, mcpPc, mcpAwaited,
                   mcpProbes, mcpSent, mcpResult, mcpRequested, notMcp>>

\* disconnect(); it may be called while connect() or callTool is waiting
McpDisconnect ==
    /\ mcpOps < MaxMcpOps
    /\ mcpOps' = mcpOps + 1
    /\ mcpSse' = "null"
    /\ mcpEndpoint' = "null"
    /\ mcpPending' = {}
    /\ mcpConnected' = FALSE
    /\ mcpTools' = <<>>
    /\ mcpSessionId' = "null"
    /\ mcpLife' = "disconnect"
    /\ UNCHANGED <<mcpTransport, mcpMessageId, mcpTimers, mcpPc, mcpAwaited,
                   mcpProbes, mcpSent, mcpResult, mcpRequested, notMcp>>

NextMcp ==
    \/ McpConnect
    \/ \E answer \in PostProbeAnswers : McpPostProbeAnswered(answer)
    \/ \E answer \in GetProbeAnswers : McpGetProbeAnswered(answer)
    \/ McpSseOnOpen
    \/ \E outcome \in {"endpoint", "error", "timeout"} : McpSseOpened(outcome)
    \/ \E answer \in {"ok", "notOk", "throws"} : McpPostAnswered(answer)
    \/ \E answer \in ReplyAnswers : McpInitializeAnswered(answer)
    \/ \E answer \in {"ok", "notOk", "throws"} : McpNotificationAnswered(answer)
    \/ McpDelayElapsed
    \/ \E answer \in ReplyAnswers \ {"resultWithSession"}, tools \in ServerToolLists :
          McpToolsListAnswered(answer, tools)
    \/ McpCallTool
    \/ \E answer \in ReplyAnswers \ {"resultWithSession"} : McpCallAnswered(answer)
    \/ \E id \in 1..(2 * MaxMcpOps) : McpLateTimeout(id)
    \/ McpDisconnect

(***************************************************************************)
(* MCPClient over sse-legacy: the correlation of requests and replies      *)
(* (src/unnamed/part_009, handleSSEMessage, waitForSSEResponse,            *)
(* sendMessageSSELegacy).  Several calls of sendMessageSSELegacy may be in *)
(* flight at once; the POST answers, the message events of the EventSource *)
(* and the timers arrive in any order.                                     *)
(***************************************************************************)
RequestIds == 1..MaxRequests

\* the ids a message event may carry: 0 stands for an absent or falsy id,
\* MaxRequests + 1 for an id the client has not given out
EventIds == 0..(MaxRequests + 1)
EventBodies == {"result", "error"}

\* event.data of a message event: JSON text of a JSON-RPC message, or not JSON
NotJson == [json |-> FALSE, id |-> 0, body |-> "not JSON"]
SSEData == [json : {TRUE}, id : EventIds, body : EventBodies] \cup {NotJson}
NoEvent == [json |-> FALSE, id |-> 0, body |-> "none"]

\* a call of sendMessageSSELegacy: its POST, its responsePromise, the value
\* the promise resolved with, and how the call itself ended
NoCall == [post |-> "none", promise |-> "none", value |-> NoEvent, result |-> "none"]

PendingUnused ==
    /\ pqEndpoint = "null"
    /\ pqMessageId = 1
    /\ pqPending = {}
    /\ pqTimers = {}
    /\ pqCalls = [i \in RequestIds |-> NoCall]

\* a freshly constructed client
PendingStart == PendingUnused

\* connectSSELegacy: the endpoint event sets the message endpoint
PqEndpointEvent ==
    /\ pqEndpoint = "null"
    /\ pqEndpoint' = "/messages"
    /\ UNCHANGED <<pqMessageId, pqPending, pqTimers, pqCalls, notPq>>

\* waitForSSEResponse(messageId): the timer is started and the resolver is
\* stored under the id
WaitForSSEResponse(id) ==
    /\ pqTimers' = pqTimers \cup {id}
    /\ pqPending' = pqPending \cup {id}

\* mutant of PqSendMessage: the POST goes out before the request is registered
PqSendMessageUnregistered ==
    /\ pqEndpoint # "null"
    /\ pqMessageId <= MaxRequests
    /\ pqMessageId' = pqMessageId + 1
    /\ pqCalls' = [pqCalls EXCEPT ![pqMessageId] =
                      [post |-> "inFlight", promise |-> "pending",
                       value |-> NoEvent, result |-> "running"]]
    /\ UNCHANGED <<pqEndpoint, pqTimers, pqPending, notPq>>

\* sendMessageSSELegacy up to its fetch: the id is taken, the pending request
\* is set up, the POST goes out
PqSendMessage ==
    /\ pqEndpoint # "null"
    /\ pqMessageId <= MaxRequests
    /\ pqMessageId' = pqMessageId + 1
    /\ WaitForSSEResponse(pqMessageId)
    /\ pqCalls' = [pqCalls EXCEPT ![pqMessageId] =
                      [post |-> "inFlight", promise |-> "pending",
                       value |-> NoEvent, result |-> "running"]]
    /\ UNCHANGED <<pqEndpoint, notPq>>

\* sendMessageSSELegacy after its fetch: a non-OK status deletes the pending
\* entry and throws; a fetch that throws ends the call at once; after an OK
\* status the call awaits responsePromise, which may be settled already
PqPostAnswered(id, answer) ==
    /\ pqCalls[id].post = "inFlight"
    /\ CASE answer = "ok" ->
              /\ pqCalls' = [pqCalls EXCEPT ![id].post = "ok",
                     ![id].result = CASE pqCalls[id].promise = "resolved" -> "returned"
                                      [] pqCalls[id].promise = "rejected" -> "timeout"
                                      [] OTHER -> "running"]
              /\ UNCHANGED pqPending
         [] answer = "notOk" ->
              /\ pqCalls' = [pqCalls EXCEPT ![id].post = "notOk",
                                            ![id].result = "httpError"]
              /\ pqPending' = pqPending \ {id}
         [] OTHER ->
              /\ pqCalls' = [pqCalls EXCEPT ![id].post = "threw",
                                            ![id].result = "networkError"]
              /\ UNCHANGED pqPending
    /\ UNCHANGED <<pqEndpoint, pqMessageId, pqTimers, notPq>>

\* the resolver stored by waitForSSEResponse: clears the timer and resolves
\* the promise; the call returns the response if it is awaiting the promise
Resolved(calls, id, message) ==
    [calls EXCEPT ![id].promise = "resolved",
                  ![id].value = message,
                  ![id].result = IF calls[id].post = "ok" THEN "returned"
                                 ELSE calls[id].result]

\* mutant of HandleSSEMessage: the reply settles the oldest pending request
HandleSSEMessageOldest(data) ==
    IF data.json /\ data.id # 0 /\ pqPending # {}
      THEN LET id == CHOOSE i \in pqPending : \A j \in pqPending : i <= j IN
           /\ pqCalls' = Resolved(pqCalls, id, data)
           /\ pqTimers' = pqTimers \ {id}
           /\ pqPending' = pqPending \ {id}
      ELSE UNCHANGED <<pqCalls, pqTimers, pqPending>>

\* handleSSEMessage(data)
HandleSSEMessage(data) ==
    IF data.json /\ data.id # 0 /\ data.id \in pqPending
      THEN /\ pqCalls' = Resolved(pqCalls, data.id, data)
           /\ pqTimers' = pqTimers \ {data.id}
           /\ pqPending' = pqPending \ {data.id}
      ELSE UNCHANGED <<pqCalls, pqTimers, pqPending>>

\* the EventSource delivers a message event
PqMessageEvent(data) ==
    /\ pqEndpoint # "null"
    /\ HandleSSEMessage(data)
    /\ UNCHANGED <<pqEndpoint, pqMessageId, notPq>>

\* mutant of PqTimerFires: the timer rejects but leaves the entry in the map
PqTimerFiresKeepingEntry(id) ==
    /\ id \in pqTimers
    /\ pqTimers' = pqTimers \ {id}
    /\ UNCHANGED pqPending
    /\ pqCalls' = [pqCalls EXCEPT ![id].promise = "rejected",
                      ![id].result = IF pqCalls[id].post = "ok" THEN "timeout"
                                     ELSE pqCalls[id].result]
    /\ UNCHANGED <<pqEndpoint, pqMessageId, notPq>>

\* mutant of PqTimerFires: the timer empties the whole map
PqTimerFiresClearingAll(id) ==
    /\ id \in pqTimers
    /\ pqTimers' = pqTimers \ {id}
    /\ pqPending' = {}
    /\ pqCalls' = [pqCalls EXCEPT ![id].promise = "rejected",
                      ![id].result = IF pqCalls[id].post = "ok" THEN "timeout"
                                     ELSE pqCalls[id].result]
    /\ UNCHANGED <<pqEndpoint, pqMessageId, notPq>>

\* the timer of waitForSSEResponse fires: the entry is deleted and the
\* promise rejected with 'SSE response timeout'
PqTimerFires(id) ==
    /\ id \in pqTimers
    /\ pqTimers' = pqTimers \ {id}
    /\ pqPending' = pqPending \ {id}
    /\ pqCalls' = [pqCalls EXCEPT ![id].promise = "rejected",
                      ![id].result = IF pqCalls[id].post = "ok" THEN "timeout"
                                     ELSE pqCalls[id].result]
    /\ UNCHANGED <<pqEndpoint, pqMessageId, notPq>>

\* disconnect(): the message endpoint is dropped and the map cleared; the
\* timers keep running and the message id is kept
PqDisconnect ==
    /\ pqEndpoint # "null"
    /\ pqEndpoint' = "null"
    /\ pqPending' = {}
    /\ UNCHANGED <<pqMessageId, pqTimers, pqCalls, notPq>>

NextPending ==
    \/ PqEndpointEvent
    \/ PqSendMessage
    \/ \E id \in RequestIds, answer \in {"ok", "notOk", "throws"} :
          PqPostAnswered(id, answer)
    \/ \E data \in SSEData : PqMessageEvent(data)
    \/ \E id \in RequestIds : PqTimerFires(id)
    \/ PqDisconnect

(***************************************************************************)
(* useChatEngine with tool support (src/unnamed/part_004, lines 169-678).  *)
(* The tool-aware OpenRouterClient it drives is not among the sources: the *)
(* model lets the client deliver a stream's outcome through any of the     *)
(* four callbacks the hook passes it (onToolCall, onComplete with or       *)
(* without tool calls, onError), as section 4.4 of the specification       *)
(* describes.  executeTools is the executor modelled above.                *)
(***************************************************************************)
ChatTurns == 1..MaxChatTurns

\* MESSAGE_ROLES.TOOL_EXECUTION: constants.js defines no such key
TOOL_EXECUTION == "undefined"

ChSystemPrompt == Content("You are a helpful AI assistant. Please use dollar signs", 0, 0)

\* a message of the React state (addMessage)
ChatMsg(role, content, toolExecution) ==
    [role |-> role, content |-> content, tool_calls |-> <<>>, tool_call_id |-> "",
     toolExecution |-> toolExecution]

\* a message of a request body
ApiMsg(role, content, toolCalls, toolCallId) ==
    [role |-> role, content |-> content, tool_calls |-> toolCalls,
     tool_call_id |-> toolCallId]

\* mutant of ApiHistory: the display-only messages are not filtered out
ApiHistoryUnfiltered(msgs) ==
    <<ApiMsg("system", ChSystemPrompt, <<>>, "")>>
      \o [i \in 1..Len(msgs) |->
            ApiMsg(msgs[i].role, msgs[i].content, msgs[i].tool_calls,
                   msgs[i].tool_call_id)]

\* messages.filter(role !== TOOL_EXECUTION).map({role, content, tool_calls?, tool_call_id?})
ApiHistory(msgs) ==
    LET kept == SelectSeq(msgs, LAMBDA m : m.role # TOOL_EXECUTION)
    IN  <<ApiMsg("system", ChSystemPrompt, <<>>, "")>>
          \o [i \in 1..Len(kept) |->
                ApiMsg(kept[i].role, kept[i].content, kept[i].tool_calls,
                       kept[i].tool_call_id)]

\* content && content.trim()
IsBlank(content) == content.kind = "empty"

\* what a stream or a response of turn t delivered in its round
ModelContent(kind, t, round, n) ==
    IF n = 0 THEN Empty ELSE Content(kind, t, n)

ContentLengths == 0..1

\* the last message, if it is the assistant's, gets the content or is removed
UpdateOrRemoveLast(msgs, content) ==
    IF msgs # <<>> /\ msgs[Len(msgs)].role = "assistant"
      THEN IF ~IsBlank(content)
             THEN [msgs EXCEPT ![Len(msgs)].content = content]
             ELSE SubSeq(msgs, 1, Len(msgs) - 1)
      ELSE msgs

\* the texts JSON.parse accepts
ValidJson == {"{\"a\":2,\"b\":3}", "{\"result\":5}", "{\"result\":6}",
              UnknownToolError, HandlerThrewError,
              "{}", "{\"name\":\"Ann\"}", "{\"name\":\"Ann\",\"style\":\"formal\"}"}

\* JSON.parse with the {_raw: ...} fallback
ParseOrRaw(text) ==
    IF text \notin ValidJson THEN [raw |-> TRUE, value |-> text]
    ELSE [raw |-> FALSE, value |-> text]

\* toolCalls.forEach(... addMessage(TOOL_EXECUTION, '', null, null, {toolCall, toolResult}))
ToolExecutionMessages(calls, results) ==
    [i \in 1..Len(calls) |->
        ChatMsg(TOOL_EXECUTION, Empty,
                <<[toolCall |-> [name |-> calls[i].name,
                                 arguments |-> ParseOrRaw(calls[i].arguments)],
                   toolResult |-> ParseOrRaw(results[i].content.kind)]>>)]

\* mutant of ToolMessages: the results that carry an error are left out
ToolMessagesWithoutErrors(results) ==
    LET good == SelectSeq(results,
                    LAMBDA r : r.content.kind \notin {UnknownToolError, HandlerThrewError})
    IN  [i \in 1..Len(good) |-> ApiMsg("tool", good[i].content, <<>>, good[i].tool_call_id)]

\* toolResults.map(result => ({role: TOOL, content, tool_call_id}))
ToolMessages(results) ==
    [i \in 1..Len(results) |->
        ApiMsg("tool", results[i].content, <<>>, results[i].tool_call_id)]

\* the tool calls a response may carry
ChatCallLists ==
    {<<ToolCall(1, "add_numbers", "{\"a\":2,\"b\":3}"),
       ToolCall(2, "no_such_tool", "{\"a\":2")>>}

\* how the handlers of a round may end: an unknown tool has no handler to run
OutcomesOf(calls) ==
    {o \in [1..Len(calls) -> {"returns", "throws"}] :
        \A i \in 1..Len(calls) : calls[i].name \notin Handlers => o[i] = "throws"}

RoundOutcomes == UNION {OutcomesOf(calls) : calls \in ChatCallLists}

FreshChatTurn ==
    [pc |-> "unused", snap |-> <<>>, req |-> <<>>, prevReq |-> <<>>,
     calls |-> <<>>, content |-> Empty, nested |-> FALSE, round |-> 0,
     doneCalls |-> <<>>, doneContent |-> Empty, doneResults |-> <<>>,
     doneOutcomes |-> <<>>]

\* a turn that is over: its closure is garbage
TurnOver(how) == [FreshChatTurn EXCEPT !.pc = how]

NoSend == "none"

ChatUnused ==
    /\ chApiKey = TRUE
    /\ chMessages = <<>>
    /\ chIsLoading = FALSE
    /\ chIsStreaming = FALSE
    /\ chError = "null"
    /\ chTurn = [t \in ChatTurns |-> FreshChatTurn]
    /\ chLastSend = NoSend
    /\ chRoundsLeft = 0

\* useChatEngine(apiKey, ...) on mount
ChatStart ==
    /\ chApiKey \in BOOLEAN
    /\ chMessages = <<>>
    /\ chIsLoading = FALSE
    /\ chIsStreaming = FALSE
    /\ chError = "null"
    /\ chTurn = [t \in ChatTurns |-> FreshChatTurn]
    /\ chLastSend = NoSend
    /\ chRoundsLeft = MaxRounds

\* the phases in which a turn is not over
InFlight == {"streaming", "toolsInOnToolCall", "toolsInResponse", "fallback"}
ChBusy == \E t \in ChatTurns : chTurn[t].pc \in InFlight

\* sendMessage throws at one of its three guards, before touching any state
ChSendRefused(text) ==
    /\ \/ ~chApiKey
       \/ TrimText(text) = ""
       \/ chIsLoading \/ chIsStreaming
    /\ UNCHANGED <<chVars, notChat>>

\* sendMessage passes its guards: user message, placeholder, streaming request
ChSendMessage(t, text) ==
    /\ chApiKey
    /\ TrimText(text) # ""
    /\ ~(chIsLoading \/ chIsStreaming)
    /\ chTurn[t].pc = "unused"
    /\ \A u \in ChatTurns : u < t => chTurn[u].pc # "unused"
    /\ LET user == Content(TrimText(text), t, 0)
       IN  /\ chMessages' = chMessages \o <<ChatMsg("user", user, <<>>),
                                            ChatMsg("assistant", Empty, <<>>)>>
           /\ chTurn' = [chTurn EXCEPT ![t] =
                  [FreshChatTurn EXCEPT
                      !.pc = "streaming",
                      !.snap = chMessages,
                      !.req = ApiHistory(chMessages)
                                \o <<ApiMsg("user", user, <<>>, "")>>]]
    /\ chError' = "null"
    /\ chIsStreaming' = TRUE
    /\ chIsLoading' = FALSE
    /\ chLastSend' = IF ChBusy THEN "busy" ELSE "idle"
    /\ UNCHANGED <<chApiKey, chRoundsLeft, notChat>>

\* onComplete(finalContent) without tool calls
ChStreamComplete(t, n) ==
    /\ chTurn[t].pc = "streaming"
    /\ chIsStreaming' = FALSE
    /\ chIsLoading' = FALSE
    /\ chMessages' = SetLastAssistant(chMessages,
                         ModelContent("stream", t, chTurn[t].round, n))
    /\ chTurn' = [chTurn EXCEPT ![t] = TurnOver("done")]
    /\ UNCHANGED <<chApiKey, chError, chRoundsLeft, notChat>>
    /\ chLastSend' = NoSend

\* onToolCall(toolCalls, accumulatedContent): up to the await of executeTools
ChStreamToolCalls(t, n, calls) ==
    /\ chTurn[t].pc = "streaming"
    /\ chRoundsLeft > 0
    /\ chRoundsLeft' = chRoundsLeft - 1
    /\ LET content == ModelContent("stream", t, chTurn[t].round, n)
       IN  /\ chMessages' = IF chTurn[t].nested
                              THEN SetLastAssistant(chMessages, content)
                              ELSE UpdateOrRemoveLast(chMessages, content)
           /\ chTurn' = [chTurn EXCEPT ![t].pc = "toolsInOnToolCall",
                                       ![t].calls = calls,
                                       ![t].content = content]
    /\ UNCHANGED <<chApiKey, chIsLoading, chIsStreaming, chError, notChat>>
    /\ chLastSend' = NoSend

\* handleToolCallsInResponse(content, toolCalls): up to the await of executeTools
HandleToolCallsInResponse(t, content, calls) ==
    /\ chMessages' = UpdateOrRemoveLast(chMessages, content)
    /\ chTurn' = [chTurn EXCEPT ![t].pc = "toolsInResponse",
                                ![t].calls = calls,
                                ![t].content = content]

\* onComplete(finalContent, toolCalls) with tool calls
ChStreamCompleteWithToolCalls(t, n, calls) ==
    /\ chTurn[t].pc = "streaming"
    /\ chRoundsLeft > 0
    /\ chRoundsLeft' = chRoundsLeft - 1
    /\ chIsStreaming' = FALSE
    /\ chIsLoading' = FALSE
    /\ HandleToolCallsInResponse(t, ModelContent("stream", t, chTurn[t].round, n), calls)
    /\ UNCHANGED <<chApiKey, chError, notChat>>
    /\ chLastSend' = NoSend

\* the message list the continuation extends: apiMessages in onToolCall, the
\* list rebuilt from the closure's messages in handleToolCallsInResponse
ContinuationBase(turn) ==
    IF turn.pc = "toolsInOnToolCall" THEN turn.req ELSE ApiHistory(turn.snap)

\* executeTools has returned: tool_execution messages, then
\* continueConversationWithTools up to its streaming request
ChToolsDone(t, outcomes) ==
    /\ chTurn[t].pc \in {"toolsInOnToolCall", "toolsInResponse"}
    /\ outcomes \in OutcomesOf(chTurn[t].calls)
    /\ LET turn == chTurn[t]
           results == ExecuteTools(turn.calls, outcomes)
           currentApiMessages ==
               ContinuationBase(turn)
                 \o <<ApiMsg("assistant", turn.content, turn.calls, "")>>
       IN  /\ chMessages' = chMessages \o ToolExecutionMessages(turn.calls, results)
                              \o <<ChatMsg("assistant", Empty, <<>>)>>
           /\ chTurn' = [chTurn EXCEPT ![t] =
                  [turn EXCEPT !.pc = "streaming",
                               !.prevReq = turn.req,
                               !.req = currentApiMessages \o ToolMessages(results),
                               !.nested = TRUE,
                               !.round = turn.round + 1,
                               !.calls = <<>>,
                               !.content = Empty,
                               !.doneCalls = turn.calls,
                               !.doneContent = turn.content,
                               !.doneResults = results,
                               !.doneOutcomes = outcomes]]
    /\ chIsStreaming' = TRUE
    /\ UNCHANGED <<chApiKey, chIsLoading, chError, chRoundsLeft, notChat>>
    /\ chLastSend' = NoSend

\* onError -> handleStreamingError up to getCompletion(apiMessages, ...)
ChStreamFails(t) ==
    /\ chTurn[t].pc = "streaming"
    /\ chIsStreaming' = FALSE
    /\ chIsLoading' = TRUE
    /\ chTurn' = [chTurn EXCEPT ![t].pc = "fallback"]
    /\ UNCHANGED <<chApiKey, chMessages, chError, chRoundsLeft, notChat>>
    /\ chLastSend' = NoSend

\* mutant of ChFallbackText: isLoading is not cleared after the fallback
ChFallbackTextKeepsLoading(t, n) ==
    /\ chTurn[t].pc = "fallback"
    /\ chMessages' = SetLastAssistant(chMessages,
                         ModelContent("stream", t, chTurn[t].round, n))
    /\ chTurn' = [chTurn EXCEPT ![t] = TurnOver("done")]
    /\ UNCHANGED <<chApiKey, chIsLoading, chIsStreaming, chError, chRoundsLeft, notChat>>
    /\ chLastSend' = NoSend

\* handleStreamingError: the fallback answered with text
ChFallbackText(t, n) ==
    /\ chTurn[t].pc = "fallback"
    /\ chMessages' = SetLastAssistant(chMessages,
                         ModelContent("stream", t, chTurn[t].round, n))
    /\ chIsLoading' = FALSE
    /\ chTurn' = [chTurn EXCEPT ![t] = TurnOver("done")]
    /\ UNCHANGED <<chApiKey, chIsStreaming, chError, chRoundsLeft, notChat>>
    /\ chLastSend' = NoSend

\* handleStreamingError: the fallback answered with tool calls
ChFallbackToolCalls(t, n, calls) ==
    /\ chTurn[t].pc = "fallback"
    /\ chRoundsLeft > 0
    /\ chRoundsLeft' = chRoundsLeft - 1
    /\ HandleToolCallsInResponse(t, ModelContent("stream", t, chTurn[t].round, n), calls)
    /\ UNCHANGED <<chApiKey, chIsLoading, chIsStreaming, chError, notChat>>
    /\ chLastSend' = NoSend

\* handleStreamingError: the fallback failed too; when the client awaits
\* onError the catch block of the caller also clears isStreaming
ChFallbackFails(t, awaited) ==
    /\ chTurn[t].pc = "fallback"
    /\ chMessages' = SetLastAssistant(chMessages, Content("Error: fallback failed", t, 0))
    /\ chError' = "fallback failed"
    /\ chIsLoading' = FALSE
    /\ chIsStreaming' = IF awaited THEN FALSE ELSE chIsStreaming
    /\ chTurn' = [chTurn EXCEPT ![t] = TurnOver("failed")]
    /\ UNCHANGED <<chApiKey, chRoundsLeft, notChat>>
    /\ chLastSend' = NoSend

\* clearMessages
ChClearMessages ==
    /\ chMessages # <<>>
    /\ chMessages' = <<>>
    /\ chError' = "null"
    /\ UNCHANGED <<chApiKey, chIsLoading, chIsStreaming, chTurn, chRoundsLeft, notChat>>
    /\ chLastSend' = NoSend

NextChat ==
    \/ \E text \in UserInputs : ChSendRefused(text)
    \/ \E t \in ChatTurns, text \in UserInputs : ChSendMessage(t, text)
    \/ \E t \in ChatTurns, n \in ContentLengths : ChStreamComplete(t, n)
    \/ \E t \in ChatTurns, n \in ContentLengths, calls \in ChatCallLists :
          ChStreamToolCalls(t, n, calls)
    \/ \E t \in ChatTurns, n \in ContentLengths, calls \in ChatCallLists :
          ChStreamCompleteWithToolCalls(t, n, calls)
    \/ \E t \in ChatTurns, outcomes \in RoundOutcomes : ChToolsDone(t, outcomes)
    \/ \E t \in ChatTurns : ChStreamFails(t)
    \/ \E t \in ChatTurns, n \in ContentLengths : ChFallbackText(t, n)
    \/ \E t \in ChatTurns, n \in ContentLengths, calls \in ChatCallLists :
          ChFallbackToolCalls(t, n, calls)
    \/ \E t \in ChatTurns, awaited \in BOOLEAN : ChFallbackFails(t, awaited)
    \/ ChClearMessages

(***************************************************************************)
(* The tool_execution messages of a tool round (src/unnamed/part_004,      *)
(* handleToolCallsInResponse 379-416 and the onToolCall callbacks) and the *)
(* arguments the Message component shows for them                         *)
(* (src/src/components/MessageInput.jsx).  The tools are those of          *)
(* src/src/demo.jsx.                                                       *)
(***************************************************************************)
\* the optional parameters of a tool that have a default in its schema
SchemaDefaults(name) ==
    CASE name = "greet" -> {"style"}
      [] name = "get_time" -> {"timezone"}
      [] OTHER -> {}

\* the keys of the object JSON.parse (or the {_raw} fallback) yields
ArgumentKeys(parsed) ==
    CASE parsed.raw -> {"_raw"}
      [] parsed.value = "{}" -> {}
      [] parsed.value = "{\"name\":\"Ann\"}" -> {"name"}
      [] parsed.value = "{\"name\":\"Ann\",\"style\":\"formal\"}" -> {"name", "style"}
      [] parsed.value = "{\"a\":2,\"b\":3}" -> {"a", "b"}
      [] OTHER -> {}

\* Message: the defaults it adds to the arguments it displays
\* (!(key in displayArgs) && properties[key].default !== undefined)
MissingDefaults(name, parsed) ==
    {key \in SchemaDefaults(name) : key \notin ArgumentKeys(parsed)}

\* the tool calls a model may ask for: every parameter given, an optional
\* parameter with a default left out, arguments that are not JSON
DisplayCalls ==
    {[name |-> "greet", arguments |-> "{\"name\":\"Ann\",\"style\":\"formal\"}"],
     [name |-> "greet", arguments |-> "{\"name\":\"Ann\"}"],
     [name |-> "get_time", arguments |-> "{}"],
     [name |-> "calculate", arguments |-> "{\"a\":2"]}

DisplayResults == {Text("{\"result\":5}"), Text("plain text")}

DisplayUnused ==
    /\ teCalls = <<>>
    /\ teResults = <<>>
    /\ teMessages = <<>>

\* a tool round: executeTools has returned one result per call
DisplayStart ==
    /\ \E n \in 1..MaxDisplayCalls :
          /\ teCalls \in [1..n -> DisplayCalls]
          /\ \E contents \in [1..n -> DisplayResults] :
                teResults = [i \in 1..n |->
                                [tool_call_id |-> CallId(i), content |-> contents[i]]]
    /\ teMessages = <<>>

\* toolCalls.forEach(...): the tool_execution messages are appended
TeAppendMessages ==
    /\ teMessages = <<>>
    /\ teMessages' = ToolExecutionMessages(teCalls, teResults)
    /\ UNCHANGED <<teCalls, teResults, notTe>>

NextDisplay == TeAppendMessages

(***************************************************************************)
(* useMCPManager (src/src/hooks/useMCPManager.js).  A client is a number;  *)
(* the hook creates one per connection attempt.  A state setter followed   *)
(* by the re-render it causes, with the effects of that render, is one     *)
(* step.  connectToMCP reads mcpServerUrl and mcpClient of the render in   *)
(* which its effect ran, whatever the state is when the timer fires.       *)
(***************************************************************************)
ServerUrls == {"", "A", "B"}
HookClientIds == 1..MaxUrlChanges
NoTimer == [armed |-> FALSE, url |-> "", client |-> 0]

HookUnused ==
    /\ hkUrl = ""
    /\ hkStatus = "null"
    /\ hkTools = 0
    /\ hkHandlers = 0
    /\ hkClient = 0
    /\ hkTimer = NoTimer
    /\ hkClients = [c \in HookClientIds |-> "unused"]
    /\ hkMounted = FALSE
    /\ hkChanges = 0
    /\ hkPrevious = {}
    /\ hkClientUrl = [c \in HookClientIds |-> ""]

\* the first render: the useState initial values, and the first effect has
\* scheduled connectToMCP
HookStart ==
    /\ hkUrl = ""
    /\ hkStatus = "null"
    /\ hkTools = 0
    /\ hkHandlers = 0
    /\ hkClient = 0
    /\ hkTimer = [armed |-> TRUE, url |-> "", client |-> 0]
    /\ hkClients = [c \in HookClientIds |-> "unused"]
    /\ hkMounted = TRUE
    /\ hkChanges = 0
    /\ hkPrevious = {}
    /\ hkClientUrl = [c \in HookClientIds |-> ""]

\* client.disconnect()
Disconnected(clients, c) ==
    IF c = 0 THEN clients ELSE [clients EXCEPT ![c] = "disconnected"]

\* the cleanup of the second effect, which runs when mcpClient changes
ClientEffectCleanup(clients, next) ==
    IF next # hkClient THEN Disconnected(clients, hkClient) ELSE clients

\* the client the hook holds is connected
HoldsConnected == hkClient # 0 /\ hkClients[hkClient] = "connected"

\* setMcpServerUrl(url): the first effect is cleaned up (clearTimeout) and
\* runs again, scheduling connectToMCP of this render
HkSetUrl(url) ==
    /\ hkMounted
    /\ url # hkUrl
    /\ hkChanges < MaxUrlChanges
    /\ hkChanges' = hkChanges + 1
    /\ hkUrl' = url
    /\ hkTimer' = [armed |-> TRUE, url |-> url, client |-> hkClient]
    /\ hkPrevious' = IF HoldsConnected THEN hkPrevious \cup {hkClient} ELSE hkPrevious
    /\ UNCHANGED <<hkStatus, hkTools, hkHandlers, hkClient, hkClients, hkMounted,
                   hkClientUrl, notHk>>

\* the debounce timer fires: connectToMCP up to its await
HkDebounceFires ==
    /\ hkTimer.armed
    /\ hkTimer' = NoTimer
    /\ IF hkTimer.url = ""
         THEN /\ hkStatus' = "null"
              /\ hkTools' = 0
              /\ hkHandlers' = 0
              /\ IF hkTimer.client # 0
                   THEN /\ hkClient' = 0
                        /\ hkClients' = ClientEffectCleanup(
                                            Disconnected(hkClients, hkTimer.client), 0)
                   ELSE UNCHANGED <<hkClient, hkClients>>
              /\ UNCHANGED hkClientUrl
         ELSE /\ hkStatus' = "connecting"
              /\ \E c \in HookClientIds :
                    /\ hkClients[c] = "unused"
                    /\ \A d \in 1..(c - 1) : hkClients[d] # "unused"
                    /\ hkClients' = [hkClients EXCEPT ![c] = "connecting"]
                    /\ hkClientUrl' = [hkClientUrl EXCEPT ![c] = hkTimer.url]
              /\ UNCHANGED <<hkTools, hkHandlers, hkClient>>
    /\ UNCHANGED <<hkUrl, hkMounted, hkChanges, hkPrevious, notHk>>

\* client.connect() settles and connectToMCP resumes; the setters do nothing
\* once the component is unmounted
HkConnectSettles(c, success) ==
    /\ hkClients[c] = "connecting"
    /\ LET settled == [hkClients EXCEPT ![c] = IF success THEN "connected"
                                             ELSE "failed"]
       IN  IF hkMounted
             THEN /\ hkClient' = IF success THEN c ELSE 0
                  /\ hkTools' = hkClient'
                  /\ hkHandlers' = hkClient'
                  /\ hkStatus' = IF success THEN "connected" ELSE "error"
                  /\ hkClients' = ClientEffectCleanup(settled, hkClient')
             ELSE /\ hkClients' = settled
                  /\ UNCHANGED <<hkClient, hkTools, hkHandlers, hkStatus>>
    /\ UNCHANGED <<hkUrl, hkTimer, hkMounted, hkChanges, hkPrevious, hkClientUrl, notHk>>

\* the component unmounts: both effects are cleaned up
HkUnmount ==
    /\ hkMounted
    /\ hkMounted' = FALSE
    /\ hkTimer' = NoTimer
    /\ hkClients' = Disconnected(hkClients, hkClient)
    /\ hkPrevious' = IF HoldsConnected THEN hkPrevious \cup {hkClient} ELSE hkPrevious
    /\ UNCHANGED <<hkUrl, hkStatus, hkTools, hkHandlers, hkClient, hkChanges,
                   hkClientUrl, notHk>>

NextHook ==
    \/ \E url \in ServerUrls : HkSetUrl(url)
    \/ HkDebounceFires
    \/ \E c \in HookClientIds, success \in BOOLEAN : HkConnectSettles(c, success)
    \/ HkUnmount

(***************************************************************************)
(* ImprovedMCPClient (src/unnamed/part_010), the client useMCPManager of   *)
(* src/unnamed/part_004 constructs.  Every request is a POST to the server *)
(* URL; "noReply" stands for every way sendMessage throws without a        *)
(* JSON-RPC message (network error, non-OK status, unexpected content      *)
(* type, SSE body without a message).                                      *)
(***************************************************************************)
ImprovedUnused ==
    /\ impConnected = FALSE
    /\ impTools = <<>>
    /\ impMessageId = 1
    /\ impSessionId = "null"
    /\ impPc = "idle"
    /\ impSent = <<>>
    /\ impResult = NoResult
    /\ impOps = 0

\* new ImprovedMCPClient(serverUrl)
ImprovedStart == ImprovedUnused

\* sendMessage(method): the id is taken, the session headers are added for
\* every method but initialize
ImpRequest(method) ==
    [method |-> method, id |-> impMessageId,
     session |-> IF impSessionId # "null" /\ method # "initialize"
                 THEN impSessionId ELSE "null"]

\* the catch block of connect()
ImpConnectFails(answer) ==
    /\ impConnected' = FALSE
    /\ impResult' = [success |-> FALSE,
                     error |-> IF answer = "rpcError" THEN "JSON-RPC error"
                               ELSE "HTTP error"]
    /\ impPc' = "idle"

\* connect(): initialize is sent
ImpConnect ==
    /\ impPc = "idle"
    /\ impOps < MaxImprovedOps
    /\ impOps' = impOps + 1
    /\ impSent' = <<ImpRequest("initialize")>>
    /\ impMessageId' = impMessageId + 1
    /\ impPc' = "initReply"
    /\ impResult' = NoResult
    /\ UNCHANGED <<impConnected, impTools, impSessionId, notImp>>

\* connect() step 1: the reply to initialize; on success the session id is
\* kept and tools/list is sent
ImpInitializeAnswered(answer) ==
    /\ impPc = "initReply"
    /\ IF answer \in {"result", "resultWithSession"}
         THEN /\ impSessionId' = IF answer = "resultWithSession" THEN "session-1"
                                 ELSE impSessionId
              /\ impSent' = Append(impSent,
                     [method |-> "tools/list", id |-> impMessageId,
                      session |-> impSessionId'])
              /\ impMessageId' = impMessageId + 1
              /\ impPc' = "listReply"
              /\ UNCHANGED <<impConnected, impResult>>
         ELSE /\ ImpConnectFails(answer)
              /\ UNCHANGED <<impSessionId, impSent, impMessageId>>
    /\ UNCHANGED <<impTools, impOps, notImp>>

\* connect() step 2: the reply to tools/list; on success the client is connected
ImpToolsListAnswered(answer, tools) ==
    /\ impPc = "listReply"
    /\ IF answer = "result"
         THEN /\ impTools' = tools
              /\ impConnected' = TRUE
              /\ impResult' = [success |-> TRUE, error |-> "null"]
              /\ impPc' = "idle"
         ELSE /\ ImpConnectFails(answer)
              /\ UNCHANGED impTools
    /\ UNCHANGED <<impMessageId, impSessionId, impSent, impOps, notImp>>

\* callTool(toolName, args)
ImpCallTool ==
    /\ impPc = "idle"
    /\ impOps < MaxImprovedOps
    /\ impOps' = impOps + 1
    /\ IF impConnected
         THEN /\ impSent' = <<ImpRequest("tools/call")>>
              /\ impMessageId' = impMessageId + 1
              /\ impPc' = "callReply"
              /\ impResult' = NoResult
         ELSE /\ impResult' = [success |-> FALSE, error |-> NotConnectedError]
              /\ impSent' = <<>>
              /\ UNCHANGED <<impMessageId, impPc>>
    /\ UNCHANGED <<impConnected, impTools, impSessionId, notImp>>

\* the reply to tools/call
ImpCallAnswered(answer) ==
    /\ impPc = "callReply"
    /\ impPc' = "idle"
    /\ impResult' = IF answer = "result" THEN [success |-> TRUE, error |-> "null"]
                    ELSE [success |-> FALSE,
                          error |-> IF answer = "rpcError" THEN "JSON-RPC error"
                                    ELSE "HTTP error"]
    /\ UNCHANGED <<impConnected, impTools, impMessageId, impSessionId, impSent,
                   impOps, notImp>>

\* disconnect()
ImpDisconnect ==
    /\ impOps < MaxImprovedOps
    /\ impOps' = impOps + 1
    /\ impConnected' = FALSE
    /\ impTools' = <<>>
    /\ UNCHANGED <<impMessageId, impSessionId, impPc, impSent, impResult, notImp>>

NextImproved ==
    \/ ImpConnect
    \/ \E answer \in ReplyAnswers : ImpInitializeAnswered(answer)
    \/ \E answer \in ReplyAnswers \ {"resultWithSession"}, tools \in ServerToolLists :
          ImpToolsListAnswered(answer, tools)
    \/ ImpCallTool
    \/ \E answer \in ReplyAnswers \ {"resultWithSession"} : ImpCallAnswered(answer)
    \/ ImpDisconnect

(***************************************************************************)
(* The tool calls of one streamed response: the deltas of                  *)
(* choices[0].delta.tool_calls are merged by index, and the merged calls   *)
(* are handed to executeTools by the onToolCall callback or, through       *)
(* onComplete, by handleToolCallsInResponse (src/unnamed/part_004).  The   *)
(* client that merges the deltas and calls the callbacks is utils/         *)
(* apiClient.js; the merge and the completion signals follow sections 4.1  *)
(* and 4.2 of the specification.  An argument text is a sequence of        *)
(* characters.                                                             *)
(***************************************************************************)
ArgumentText == <<"{", "\"a\":2", ",", "\"b\":3", "}", " ">>
ArgTexts == {SubSeq(ArgumentText, 1, n) : n \in 1..MaxArgLen}

StreamedNames == <<"add_numbers", "get_current_time", "add_numbers">>

\* the call lists a response may carry
StreamedCallLists ==
    UNION {{[i \in 1..n |-> ToolCall(i, StreamedNames[i], args[i])] :
               args \in [1..n -> ArgTexts]} : n \in 0..MaxStreamedCalls}

\* the ids a delta after the first may carry: none, or one of its own
LaterIds == {"", "call_later"}

AccumUnused ==
    /\ acExpected = <<>>
    /\ acSent = <<>>
    /\ acFrags = <<>>
    /\ acCalls = <<>>
    /\ acSignals = <<>>
    /\ acExecuted = <<>>

\* streamCompletion has sent its request; the model has decided on its answer
AccumStart ==
    /\ acExpected \in StreamedCallLists
    /\ acSent = [i \in 1..Len(acExpected) |-> 0]
    /\ acFrags = [i \in 1..Len(acExpected) |-> 0]
    /\ acCalls = <<>>
    /\ acSignals = <<>>
    /\ acExecuted = <<>>

\* ToolCallRef
ToolCallRef(id, name, arguments) ==
    [id |-> id, name |-> name, arguments |-> arguments]

\* one element of delta.tool_calls
Delta(index, id, name, arguments) ==
    [index |-> index, id |-> id, name |-> name, arguments |-> arguments]

\* mutant of MergeDelta: a fragment replaces the arguments merged so far
MergeDeltaReplacing(calls, delta) ==
    IF delta.index > Len(calls)
    THEN Append(calls, ToolCallRef(delta.id, delta.name, delta.arguments))
    ELSE [calls EXCEPT ![delta.index].arguments = delta.arguments]

\* fragments with the same index are merged: the id of the first fragment
\* stays, name is set once, arguments is concatenated
MergeDelta(calls, delta) ==
    IF delta.index > Len(calls)
    THEN Append(calls, ToolCallRef(delta.id, delta.name, delta.arguments))
    ELSE LET old == calls[delta.index]
         IN  [calls EXCEPT ![delta.index] =
                 ToolCallRef(old.id,
                             IF old.name = "" THEN delta.name ELSE old.name,
                             old.arguments \o delta.arguments)]

\* the delta that carries the next k argument characters of call i
NextDelta(i, k, laterId) ==
    IF acFrags[i] = 0
    THEN Delta(i, acExpected[i].id, acExpected[i].name,
               SubSeq(acExpected[i].arguments, 1, k))
    ELSE Delta(i, laterId, "",
               SubSeq(acExpected[i].arguments, acSent[i] + 1, acSent[i] + k))

\* the stream may send the next k characters of call i: calls start in index
\* order, and the last delta of a call carries what is left
MaySend(i, k) ==
    /\ acSignals = <<>>
    /\ i \in 1..Len(acExpected)
    /\ acFrags[i] < MaxFragments
    /\ i > 1 => acFrags[i - 1] > 0
    /\ k \in 0..(Len(acExpected[i].arguments) - acSent[i])
    /\ acFrags[i] = MaxFragments - 1 => k = Len(acExpected[i].arguments) - acSent[i]

\* mutant of AcDelta: the calls are executed as soon as a delta is merged
AcDeltaExecutesAtOnce(i, k, laterId) ==
    /\ MaySend(i, k)
    /\ acCalls' = MergeDelta(acCalls, NextDelta(i, k, laterId))
    /\ acSent' = [acSent EXCEPT ![i] = @ + k]
    /\ acFrags' = [acFrags EXCEPT ![i] = @ + 1]
    /\ acExecuted' = Append(acExecuted, acCalls')
    /\ UNCHANGED <<acExpected, acSignals, notAcc>>

\* a chunk with a tool-call delta is decoded
AcDelta(i, k, laterId) ==
    /\ MaySend(i, k)
    /\ acCalls' = MergeDelta(acCalls, NextDelta(i, k, laterId))
    /\ acSent' = [acSent EXCEPT ![i] = @ + k]
    /\ acFrags' = [acFrags EXCEPT ![i] = @ + 1]
    /\ UNCHANGED <<acExpected, acSignals, acExecuted, notAcc>>

\* every call of the response has been sent whole
AllSent ==
    \A i \in 1..Len(acExpected) :
        acFrags[i] > 0 /\ acSent[i] = Len(acExpected[i].arguments)

\* the chunk with the finish reason of a tool-call response: onToolCall runs
\* and hands the calls to executeTools
AcFinishReason ==
    /\ acSignals = <<>>
    /\ acExpected # <<>>
    /\ AllSent
    /\ acSignals' = <<"tool_calls">>
    /\ acExecuted' = Append(acExecuted, acCalls)
    /\ UNCHANGED <<acExpected, acSent, acFrags, acCalls, notAcc>>

\* the stream ends ([DONE] or the reader is done), at any moment: calls that
\* onToolCall has not executed go to handleToolCallsInResponse through
\* onComplete
AcEndOfStream ==
    /\ "end" \notin {acSignals[j] : j \in 1..Len(acSignals)}
    /\ acSignals' = Append(acSignals, "end")
    /\ acExecuted' = IF acSignals = <<>> /\ acCalls # <<>>
                       THEN Append(acExecuted, acCalls)
                       ELSE acExecuted
    /\ UNCHANGED <<acExpected, acSent, acFrags, acCalls, notAcc>>

NextAccum ==
    \/ \E i \in 1..MaxStreamedCalls, k \in 0..MaxArgLen, laterId \in LaterIds :
          AcDelta(i, k, laterId)
    \/ AcFinishReason
    \/ AcEndOfStream

(***************************************************************************)
(* handleSSEResponse (src/unnamed/part_009 391-420, the same code in       *)
(* src/unnamed/part_010 80-109): the reply of a streamable-http POST that  *)
(* was answered with an event-stream body.  The body is written with the   *)
(* symbols of the decoder above.                                           *)
(***************************************************************************)
EventLine == <<"event: message", NL>>
BareJsonLine == <<"{", "a", "}", NL>>
SseLineKinds == LineKinds \cup {EventLine, BareJsonLine}

SseBodies == UNION {[1..n -> SseLineKinds] : n \in 0..MaxSseLines}

NoMessage == [ok |-> FALSE, type |-> "none", content |-> ""]
SseResult(ok, message, error) == [ok |-> ok, message |-> message, error |-> error]
NotHandled == SseResult(FALSE, NoMessage, "pending")
NoValidMessage ==
    SseResult(FALSE, NoMessage, "No valid JSON messages found in SSE response")

SseBodyUnused ==
    /\ sbBody = <<>>
    /\ sbResult = SseResult(FALSE, NoMessage, "unused")

\* sendMessage has received a response with content type text/event-stream
SseBodyStart ==
    /\ sbBody \in SseBodies
    /\ sbResult = NotHandled

\* the for loop over the lines: messages.push(JSON.parse(jsonData))
RECURSIVE ParsedMessages(_)
ParsedMessages(lines) ==
    IF lines = <<>> THEN <<>>
    ELSE LET line == Head(lines)
             jsonData == Trim(Tail(line))
             rest == ParsedMessages(Tail(lines))
         IN  IF ~StartsWithData(line) THEN rest
             ELSE IF jsonData = <<>> \/ jsonData = <<"[DO", "NE]">> THEN rest
             ELSE IF ~ParseJSON(jsonData).ok THEN rest
             ELSE <<ParseJSON(jsonData)>> \o rest

\* mutant of HandleSSEResponse: the last message is returned
HandleSSEResponseLast(text) ==
    LET messages == ParsedMessages(SplitLines(text))
    IN  IF Len(messages) > 0
        THEN SseResult(TRUE, messages[Len(messages)], "")
        ELSE NoValidMessage

\* handleSSEResponse(response)
HandleSSEResponse(text) ==
    LET messages == ParsedMessages(SplitLines(text))
    IN  IF Len(messages) > 0
        THEN SseResult(TRUE, messages[1], "")
        ELSE NoValidMessage

\* await response.text(), then the body is parsed
SbHandle ==
    /\ sbResult = NotHandled
    /\ sbResult' = HandleSSEResponse(Flatten(sbBody))
    /\ UNCHANGED <<sbBody, notSb>>

NextSseBody == SbHandle

(***************************************************************************)
(* LLMChatInterface.handleSendMessage (src/unnamed/part_008 136-158,       *)
(* src/src/main.js 230-252) around useChatEngine.sendMessage               *)
(* (src/unnamed/part_004 493-658).  The turns are the ones without tool    *)
(* calls: the stream completes, or it fails and the fallback request       *)
(* answers or fails.  The handler is a closure of one render: the          *)
(* `messages` it reads after the await is the array of that render.        *)
(***************************************************************************)
MaxNotifyTurns == 2
NotifyLengths == 1..2

NoHandler == [waiting |-> FALSE, message |-> "", messages |-> <<>>]

NotifyUnused ==
    /\ nfApiKey = TRUE
    /\ nfMessages = <<>>
    /\ nfPc = "unused"
    /\ nfHandler = NoHandler
    /\ nfTurn = 0
    /\ nfOnMessage = <<>>
    /\ nfOnError = 0

\* the component is mounted with an onMessage and an onError prop
NotifyStart ==
    /\ nfApiKey \in BOOLEAN
    /\ nfMessages = <<>>
    /\ nfPc = "idle"
    /\ nfHandler = NoHandler
    /\ nfTurn = 0
    /\ nfOnMessage = <<>>
    /\ nfOnError = 0

\* messages.filter(msg => msg.role === 'assistant').pop()?.content || ''
LastAssistantContent(msgs) ==
    LET assistants == SelectSeq(msgs, LAMBDA msg : msg.role = "assistant")
    IN  IF assistants = <<>> THEN Empty
        ELSE assistants[Len(assistants)].content

\* the lines after `await sendMessage(message)` when onMessage is set
NotifyParent(handler) ==
    [message |-> handler.message,
     response |-> LastAssistantContent(handler.messages)]

\* handleSendMessage returns at its guard
NfHandleSendMessageIgnored(message) ==
    /\ TrimText(message) = "" \/ nfPc # "idle" \/ ~nfApiKey
    /\ UNCHANGED <<nfVars, notNf>>

\* handleSendMessage passes its guard: setError(null), then sendMessage runs
\* to its streaming request (user message and placeholder appended)
NfHandleSendMessage(message) ==
    /\ nfPc = "idle"
    /\ TrimText(message) # ""
    /\ nfApiKey
    /\ nfTurn < MaxNotifyTurns
    /\ nfTurn' = nfTurn + 1
    /\ nfMessages' = nfMessages
          \o <<Msg("user", Content(TrimText(message), nfTurn + 1, 0)),
               Msg("assistant", Empty)>>
    /\ nfHandler' = [waiting |-> TRUE, message |-> message, messages |-> nfMessages]
    /\ nfPc' = "streaming"
    /\ UNCHANGED <<nfApiKey, nfOnMessage, nfOnError, notNf>>

\* onComplete(finalContent) without tool calls: the placeholder gets the
\* content, sendMessage resolves and the handler notifies the parent
NfStreamCompletes(n) ==
    /\ nfPc = "streaming"
    /\ nfMessages' = SetLastAssistant(nfMessages, Content("stream", nfTurn, n))
    /\ nfPc' = "idle"
    /\ nfOnMessage' = Append(nfOnMessage, NotifyParent(nfHandler))
    /\ nfHandler' = NoHandler
    /\ UNCHANGED <<nfApiKey, nfTurn, nfOnError, notNf>>

\* the stream fails: onError -> handleStreamingError up to getCompletion.
\* A client that does not await onError lets sendMessage resolve here, and
\* the handler notifies the parent before the fallback has answered
NfStreamFails(awaited) ==
    /\ nfPc = "streaming"
    /\ nfPc' = "fallback"
    /\ IF awaited
       THEN UNCHANGED <<nfHandler, nfOnMessage>>
       ELSE /\ nfOnMessage' = Append(nfOnMessage, NotifyParent(nfHandler))
            /\ nfHandler' = NoHandler
    /\ UNCHANGED <<nfApiKey, nfMessages, nfTurn, nfOnError, notNf>>

\* the fallback answers with text; a handler that still waits is resumed
NfFallbackAnswers(n) ==
    /\ nfPc = "fallback"
    /\ nfMessages' = SetLastAssistant(nfMessages, Content("fallback", nfTurn, n))
    /\ nfPc' = "idle"
    /\ IF nfHandler.waiting
       THEN /\ nfOnMessage' = Append(nfOnMessage, NotifyParent(nfHandler))
            /\ nfHandler' = NoHandler
       ELSE UNCHANGED <<nfHandler, nfOnMessage>>
    /\ UNCHANGED <<nfApiKey, nfTurn, nfOnError, notNf>>

\* the fallback fails too: the error text is written and the error thrown;
\* a handler that still waits catches it: setError(err), onError(err)
NfFallbackFails ==
    /\ nfPc = "fallback"
    /\ nfMessages' = SetLastAssistant(nfMessages,
                                      Content("Error: fallback failed", nfTurn, 0))
    /\ nfPc' = "idle"
    /\ nfOnError' = IF nfHandler.waiting THEN nfOnError + 1 ELSE nfOnError
    /\ nfHandler' = NoHandler
    /\ UNCHANGED <<nfApiKey, nfTurn, nfOnMessage, notNf>>

\* clearMessages (New Chat)
NfClearMessages ==
    /\ nfMessages # <<>>
    /\ nfMessages' = <<>>
    /\ UNCHANGED <<nfApiKey, nfPc, nfHandler, nfTurn, nfOnMessage, nfOnError, notNf>>

NextNotify ==
    \/ \E message \in UserInputs : NfHandleSendMessageIgnored(message)
    \/ \E message \in UserInputs : NfHandleSendMessage(message)
    \/ \E n \in NotifyLengths : NfStreamCompletes(n)
    \/ \E awaited \in BOOLEAN : NfStreamFails(awaited)
    \/ \E n \in NotifyLengths : NfFallbackAnswers(n)
    \/ NfFallbackFails
    \/ NfClearMessages

(***************************************************************************)
(* Specifications.                                                         *)
(***************************************************************************)
InitDecoder == DecoderStart /\ EngineUnused /\ ReactUnused /\ ToolsUnused /\ McpUnused
    /\ ChatUnused /\ PendingUnused /\ DisplayUnused /\ HookUnused /\ ImprovedUnused /\ AccumUnused /\ SseBodyUnused /\ NotifyUnused
SpecDecoder == InitDecoder /\ [][NextDecoder]_vars

InitEngine == EngineStart /\ DecoderUnused /\ ReactUnused /\ ToolsUnused /\ McpUnused
    /\ ChatUnused /\ PendingUnused /\ DisplayUnused /\ HookUnused /\ ImprovedUnused /\ AccumUnused /\ SseBodyUnused /\ NotifyUnused
SpecEngine == InitEngine /\ [][NextEngine]_vars

InitReact == ReactStart /\ DecoderUnused /\ EngineUnused /\ ToolsUnused /\ McpUnused
    /\ ChatUnused /\ PendingUnused /\ DisplayUnused /\ HookUnused /\ ImprovedUnused /\ AccumUnused /\ SseBodyUnused /\ NotifyUnused
SpecReact == InitReact /\ [][NextReact]_vars

InitTools == ToolsStart /\ DecoderUnused /\ EngineUnused /\ ReactUnused /\ McpUnused
    /\ ChatUnused /\ PendingUnused /\ DisplayUnused /\ HookUnused /\ ImprovedUnused /\ AccumUnused /\ SseBodyUnused /\ NotifyUnused
SpecTools == InitTools /\ [][NextTools]_vars

InitMcp == McpStart /\ DecoderUnused /\ EngineUnused /\ ReactUnused /\ ToolsUnused
    /\ ChatUnused /\ PendingUnused /\ DisplayUnused /\ HookUnused /\ ImprovedUnused /\ AccumUnused /\ SseBodyUnused /\ NotifyUnused
SpecMcp == InitMcp /\ [][NextMcp]_vars

\* a timer that is armed fires
FairMcp == WF_vars(McpSseOpened("timeout"))
SpecMcpFair == SpecMcp /\ FairMcp

InitChat == ChatStart /\ DecoderUnused /\ EngineUnused /\ ReactUnused /\ ToolsUnused
    /\ McpUnused /\ PendingUnused /\ DisplayUnused /\ HookUnused /\ ImprovedUnused /\ AccumUnused /\ SseBodyUnused /\ NotifyUnused
SpecChat == InitChat /\ [][NextChat]_vars

InitPending == PendingStart /\ DecoderUnused /\ EngineUnused /\ ReactUnused
    /\ ToolsUnused /\ McpUnused /\ ChatUnused /\ DisplayUnused /\ HookUnused /\ ImprovedUnused /\ AccumUnused /\ SseBodyUnused /\ NotifyUnused
SpecPending == InitPending /\ [][NextPending]_vars

\* the timers fire and the POSTs are answered
FairPending ==
    /\ \A id \in RequestIds : WF_vars(PqTimerFires(id))
    /\ \A id \in RequestIds : WF_vars(\E answer \in {"ok", "notOk", "throws"} :
                                         PqPostAnswered(id, answer))
SpecPendingFair == SpecPending /\ FairPending

\* a single turn of useChatEngine whose continuation rounds may ask for tools
\* again (nested tool calls)
NestedStart ==
    /\ chApiKey = TRUE
    /\ chMessages = <<>>
    /\ chIsLoading = FALSE
    /\ chIsStreaming = FALSE
    /\ chError = "null"
    /\ chTurn = [t \in ChatTurns |-> FreshChatTurn]
    /\ chLastSend = NoSend
    /\ chRoundsLeft = MaxNestedRounds

NextNested ==
    \/ \E text \in UserInputs : ChSendRefused(text)
    \/ \E text \in UserInputs : ChSendMessage(1, text)
    \/ \E n \in ContentLengths : ChStreamComplete(1, n)
    \/ \E n \in ContentLengths, calls \in ChatCallLists : ChStreamToolCalls(1, n, calls)
    \/ \E n \in ContentLengths, calls \in ChatCallLists :
          ChStreamCompleteWithToolCalls(1, n, calls)
    \/ \E outcomes \in RoundOutcomes : ChToolsDone(1, outcomes)
    \/ ChStreamFails(1)
    \/ \E n \in ContentLengths : ChFallbackText(1, n)
    \/ \E n \in ContentLengths, calls \in ChatCallLists : ChFallbackToolCalls(1, n, calls)
    \/ \E awaited \in BOOLEAN : ChFallbackFails(1, awaited)

InitNested == NestedStart /\ DecoderUnused /\ EngineUnused /\ ReactUnused
    /\ ToolsUnused /\ McpUnused /\ PendingUnused /\ DisplayUnused /\ HookUnused /\ ImprovedUnused /\ AccumUnused /\ SseBodyUnused /\ NotifyUnused
SpecNested == InitNested /\ [][NextNested]_vars

InitDisplay == DisplayStart /\ DecoderUnused /\ EngineUnused /\ ReactUnused
    /\ ToolsUnused /\ McpUnused /\ ChatUnused /\ PendingUnused /\ HookUnused /\ ImprovedUnused /\ AccumUnused /\ SseBodyUnused /\ NotifyUnused
SpecDisplay == InitDisplay /\ [][NextDisplay]_vars

InitHook == HookStart /\ DecoderUnused /\ EngineUnused /\ ReactUnused
    /\ ToolsUnused /\ McpUnused /\ ChatUnused /\ PendingUnused /\ DisplayUnused /\ ImprovedUnused /\ AccumUnused /\ SseBodyUnused /\ NotifyUnused

SpecHook == InitHook /\ [][NextHook]_vars

\* timers fire, and every connect() settles (its requests end or time out)
FairHook ==
    /\ WF_vars(HkDebounceFires)
    /\ \A c \in HookClientIds :
          WF_vars(\E success \in BOOLEAN : HkConnectSettles(c, success))

SpecHookFair == SpecHook /\ FairHook

InitImproved == ImprovedStart /\ DecoderUnused /\ EngineUnused /\ ReactUnused
    /\ ToolsUnused /\ McpUnused /\ ChatUnused /\ PendingUnused /\ DisplayUnused
    /\ HookUnused /\ AccumUnused /\ SseBodyUnused /\ NotifyUnused

SpecImproved == InitImproved /\ [][NextImproved]_vars

InitAccum == AccumStart /\ DecoderUnused /\ EngineUnused /\ ReactUnused
    /\ ToolsUnused /\ McpUnused /\ ChatUnused /\ PendingUnused /\ DisplayUnused /\ HookUnused
    /\ ImprovedUnused /\ SseBodyUnused /\ NotifyUnused
SpecAccum == InitAccum /\ [][NextAccum]_vars

InitSseBody == SseBodyStart /\ DecoderUnused /\ EngineUnused /\ ReactUnused
    /\ ToolsUnused /\ McpUnused /\ ChatUnused /\ PendingUnused /\ DisplayUnused /\ HookUnused
    /\ ImprovedUnused /\ AccumUnused /\ NotifyUnused
SpecSseBody == InitSseBody /\ [][NextSseBody]_vars

InitNotify == NotifyStart /\ DecoderUnused /\ EngineUnused /\ ReactUnused
    /\ ToolsUnused /\ McpUnused /\ ChatUnused /\ PendingUnused /\ DisplayUnused /\ HookUnused
    /\ ImprovedUnused /\ AccumUnused /\ SseBodyUnused
SpecNotify == InitNotify /\ [][NextNotify]_vars

\* every network request and every tool handler of a turn in flight ends:
\* one of the callbacks of the stream, the return of executeTools or the
\* answer of the fallback request is delivered
ChProgress ==
    \/ \E t \in ChatTurns, n \in ContentLengths : ChStreamComplete(t, n)
    \/ \E t \in ChatTurns, n \in ContentLengths, calls \in ChatCallLists :
          ChStreamToolCalls(t, n, calls)
    \/ \E t \in ChatTurns, n \in ContentLengths, calls \in ChatCallLists :
          ChStreamCompleteWithToolCalls(t, n, calls)
    \/ \E t \in ChatTurns, outcomes \in RoundOutcomes : ChToolsDone(t, outcomes)
    \/ \E t \in ChatTurns : ChStreamFails(t)
    \/ \E t \in ChatTurns, n \in ContentLengths : ChFallbackText(t, n)
    \/ \E t \in ChatTurns, n \in ContentLengths, calls \in ChatCallLists :
          ChFallbackToolCalls(t, n, calls)
    \/ \E t \in ChatTurns, awaited \in BOOLEAN : ChFallbackFails(t, awaited)

SpecChatFair == SpecChat /\ WF_vars(ChProgress)

(***************************************************************************)
(* Claims about ChatEngine.                                                *)
(***************************************************************************)
\* C4 (as claimed): when the streaming request of a turn fails, exactly one
\* non-streaming request is issued and it carries the same message list as
\* the failed streaming request.
C4_FallbackCarriesSameMessages ==
    \A t \in EngineTurns :
        engTurn[t].pc \in {"fallback", "resolved", "rejected"}
        /\ engTurn[t].nFallback > 0 =>
            /\ engTurn[t].nFallback = 1
            /\ engTurn[t].fallbackReq = engTurn[t].streamReq

(***************************************************************************)
(* Claims about the react-llm-chat session.                                *)
(***************************************************************************)
\* C5 (as claimed): if the fallback request fails as well, the assistant
\* message holds the error text, the sendMessage call fails with that error,
\* and no further request is issued for the turn.
C5_FallbackFailureReachesCaller ==
    rxPc = "failed" =>
        /\ rxMessages # <<>> /\ rxMessages[Len(rxMessages)].role = "assistant" =>
               rxMessages[Len(rxMessages)].content.kind = "Error: fallback failed"
        /\ rxSendResult = "rejected"
        /\ rxRequests = 2

(***************************************************************************)
(* Claims about useChatEngine with tools.                                  *)
(***************************************************************************)
\* C1: a sendMessage call made while a turn is in flight (streaming, executing
\* tools, continuing or falling back) is rejected: it appends no message and
\* issues no request.
C1_BusySendRejected == chLastSend # "busy"

SomeCallFailed(turn) ==
    \E i \in 1..Len(turn.doneCalls) : turn.doneOutcomes[i] = "throws"

\* C7: when a handler throws or a tool has no handler, the round still has one
\* result per call, the failing call's result carries the error, the other
\* results carry their handlers' values, and the continuation request is
\* issued with one tool message per call.
C7_FailedToolsDoNotAbort ==
    \A t \in ChatTurns :
        LET turn == chTurn[t]
            n == Len(turn.doneCalls)
        IN  (turn.round > 0 /\ SomeCallFailed(turn)) =>
              /\ Len(turn.doneResults) = n
              /\ Len(turn.req) > n
              /\ \A i \in 1..n :
                    /\ turn.doneResults[i].tool_call_id = turn.doneCalls[i].id
                    /\ turn.doneResults[i].content.kind =
                          IF turn.doneCalls[i].name \notin Handlers THEN UnknownToolError
                          ELSE IF turn.doneOutcomes[i] = "throws" THEN HandlerThrewError
                          ELSE HandlerResult(turn.doneCalls[i])
                    /\ turn.req[Len(turn.req) - n + i] =
                          ApiMsg("tool", turn.doneResults[i].content, <<>>,
                                 turn.doneCalls[i].id)

\* C7 witness: a round of two calls, the first answered by its handler and the
\* second without a handler, is over and the continuation is streaming.
C7_Witness ==
    \E t \in ChatTurns :
        /\ chTurn[t].pc = "streaming"
        /\ chTurn[t].round = 1
        /\ Len(chTurn[t].doneCalls) = 2
        /\ chTurn[t].doneOutcomes = <<"returns", "throws">>

\* C8: the message list of a continuation request is the list of the request
\* before it, then the assistant message with its tool calls, then one tool
\* message per call in call order.
C8_ContinuationExtendsRequest ==
    \A t \in ChatTurns :
        LET turn == chTurn[t]
        IN  turn.round > 0 =>
              turn.req = turn.prevReq
                  \o <<ApiMsg("assistant", turn.doneContent, turn.doneCalls, "")>>
                  \o [i \in 1..Len(turn.doneResults) |->
                        ApiMsg("tool", turn.doneResults[i].content, <<>>,
                               turn.doneResults[i].tool_call_id)]

(***************************************************************************)
(* Claims about the tool executor.                                         *)
(***************************************************************************)
\* C6: execute returns exactly one result per call, and result i carries the
\* tool_call_id of call i, whatever the order in which the handlers completed.
C6_ResultsInCallOrder ==
    txReturned # <<>> =>
        /\ Len(txReturned) = Len(txCalls)
        /\ \A i \in 1..Len(txCalls) : txReturned[i].tool_call_id = txCalls[i].id

\* C6 witness: three calls whose handlers completed in the order 3, 1, 2 and
\* whose results have been returned.
C6_Witness ==
    /\ Len(txCalls) = 3
    /\ txOrder = <<3, 1, 2>>
    /\ txReturned # <<>>

(***************************************************************************)
(* Claims about MCPClient.                                                 *)
(***************************************************************************)
DetectionOver == mcpPc \notin {"probePost", "probeGet"}

\* C9: with transport 'auto', connect() selects streamable-http when the POST
\* probe got an OK response, and sse-legacy when the POST probe did not succeed
\* and the GET probe got an OK response advertising text/event-stream.
C9_DetectionSelectsTransport ==
    DetectionOver =>
        /\ mcpProbes.post = "ok" => mcpTransport = "streamable-http"
        /\ (mcpProbes.post \in {"notOk", "throws"} /\ mcpProbes.get = "okEventStream")
              => mcpTransport = "sse-legacy"

\* C9 witness: a connect() whose POST probe failed and whose GET probe answered
\* with an event stream has completed its handshake over sse-legacy.
C9_Witness ==
    /\ mcpProbes = [post |-> "notOk", get |-> "okEventStream"]
    /\ mcpTransport = "sse-legacy"
    /\ mcpConnected

ProbeFailed == mcpProbes.post \in {"notOk", "throws"}
                 /\ mcpProbes.get \in {"okOtherType", "notOk", "throws"}

\* C10: when neither probe succeeds, connect() ends with the failure 'No
\* supported MCP transport detected', the client is not connected, and the
\* connect() call has sent each probe once and nothing else.
C10_NoTransportIsHardFailure ==
    ProbeFailed =>
        /\ mcpResult = [success |-> FALSE, error |-> NoTransportError]
        /\ mcpConnected = FALSE
        /\ mcpPc = "idle"
        /\ mcpSent = <<Request("probe POST", TransportTestId), Request("probe GET", 0)>>

\* C10 witness: the POST probe threw, the GET probe answered with another
\* content type, and connect() is over.
C10_Witness ==
    /\ mcpProbes = [post |-> "throws", get |-> "okOtherType"]
    /\ mcpPc = "idle"
    /\ mcpResult.error = NoTransportError

(***************************************************************************)
(* Claims about the sse-legacy correlation of MCPClient.                   *)
(***************************************************************************)
\* C11: a message event whose JSON-RPC id is N resolves exactly the pending
\* request registered under N, with that message, and removes only that
\* entry; every other request is left as it was, and a message whose id has
\* no pending entry resolves nothing.  (A request is resolved with the
\* message the event carried, so a request resolved by a message with
\* another id would hold a value with that other id.)
C11_MessageResolvesOnlyItsRequest ==
    [][\A i \in RequestIds :
          pqCalls[i].promise # "resolved" /\ pqCalls'[i].promise = "resolved" =>
              /\ pqCalls[i].promise = "pending"
              /\ i \in pqPending
              /\ pqCalls'[i].value \in SSEData
              /\ pqCalls'[i].value.json
              /\ pqCalls'[i].value.id = i
              /\ pqPending' = pqPending \ {i}
              /\ \A j \in RequestIds \ {i} : pqCalls'[j] = pqCalls[j]]_vars

\* a reply has resolved its request while another request is still pending
C11_Witness ==
    \E i \in RequestIds :
        /\ pqCalls[i].promise = "resolved"
        /\ pqCalls[i].value.id = i
        /\ pqPending # {}

\* C12: a request whose reply does not arrive is rejected when its timer
\* fires, and the timer removes its entry from the pending map; whatever
\* happens to a request (reply, timeout, non-OK POST status, POST that
\* throws), its call ends and its entry is eventually out of the map.
C12_EntriesAreEventuallyRemoved ==
    /\ [][\A id \in RequestIds :
             id \in pqTimers /\ id \notin pqTimers'
             /\ pqCalls'[id].promise # "resolved" =>
                 /\ pqCalls'[id].promise = "rejected"
                 /\ id \notin pqPending'
                 /\ pqCalls[id].post = "ok" => pqCalls'[id].result = "timeout"]_vars
    /\ \A id \in RequestIds :
          /\ (id \in pqPending) ~> (id \notin pqPending)
          /\ (pqCalls[id].result = "running") ~>
                 (pqCalls[id].result # "running" /\ id \notin pqPending)

\* one request has timed out and another has lost its POST to a network
\* failure; both entries are gone
C12_Witness ==
    \E i, j \in RequestIds :
        /\ pqCalls[i].result = "timeout"
        /\ pqCalls[j].result = "networkError" /\ pqCalls[j].promise = "rejected"
        /\ pqPending = {}

(***************************************************************************)
(* Claims about the life cycle of MCPClient.                               *)
(***************************************************************************)
\* the connection state of a freshly constructed client
C13_FreshFields ==
    /\ mcpConnected = FALSE
    /\ mcpTools = <<>>
    /\ mcpSessionId = "null"
    /\ mcpEndpoint = "null"
    /\ mcpSse = "null"
    /\ mcpPending = {}
    /\ mcpTransport = mcpRequested
    /\ mcpMessageId = 1

\* C13 (as claimed): after disconnect() the EventSource is closed, the pending
\* map is empty, and connected, tools, sessionId, messageEndpoint,
\* sseConnection, the selected transport and the message-id counter have the
\* values they have in a freshly constructed client.
C13_DisconnectRestoresFreshState ==
    [][McpDisconnect => C13_FreshFields']_vars

(***************************************************************************)
(* Claims about the guards of sendMessage.                                 *)
(***************************************************************************)
\* C14: a sendMessage call made without an API key, or with blank text,
\* fails with an error before any state change: no message is appended, no
\* request is issued, the flags and the error state stay as they were.
C14_RefusedSendChangesNothing ==
    [][\A text \in UserInputs :
          (RxSendRefused(text) \/ RxSendMessage(text))
          /\ (~rxApiKey \/ TrimText(text) = "") =>
              /\ rxLastOp' = IF ~rxApiKey THEN "API key is required"
                             ELSE "Message cannot be empty"
              /\ UNCHANGED <<rxMessages, rxRequests, rxStreamReq, rxFallbackReq,
                             rxIsLoading, rxIsStreaming, rxError, rxPc, rxTurn>>]_vars

\* a call without an API key has been refused
C14_Witness ==
    /\ ~rxApiKey
    /\ rxLastOp = "API key is required"
    /\ rxMessages = <<>> /\ rxRequests = 0 /\ ~rxIsLoading /\ ~rxIsStreaming

C16_PlaceholderRemovedWhenEmpty ==
    [][\A t \in ChatTurns :
          /\ chTurn[t].pc = "streaming"
          /\ chTurn'[t].pc \in {"toolsInOnToolCall", "toolsInResponse"}
          /\ chMessages # <<>>
          /\ chMessages[Len(chMessages)].role = "assistant"
          => chMessages' =
                IF IsBlank(chTurn'[t].content)
                  THEN SubSeq(chMessages, 1, Len(chMessages) - 1)
                  ELSE [chMessages EXCEPT ![Len(chMessages)].content =
                                               chTurn'[t].content]]_vars

(***************************************************************************)
(* Claims about the tool_execution messages.                               *)
(***************************************************************************)
\* C17: no request sent to the LLM endpoint (initial, continuation or
\* fallback, which carries the list of the failed streaming request)
\* contains a message with the display-only role tool_execution.
C17_NoToolExecutionInRequests ==
    \A t \in ChatTurns :
        /\ \A i \in 1..Len(chTurn[t].req) :
               chTurn[t].req[i].role \notin {TOOL_EXECUTION, "tool_execution"}
        /\ \A i \in 1..Len(chTurn[t].prevReq) :
               chTurn[t].prevReq[i].role \notin {TOOL_EXECUTION, "tool_execution"}

\* a request is out whose history was built from a conversation that holds
\* tool_execution messages
C17_Witness ==
    \E t \in ChatTurns :
        /\ chTurn[t].pc \in {"streaming", "fallback"}
        /\ chTurn[t].req # <<>>
        /\ \E i \in 1..Len(chTurn[t].snap) : chTurn[t].snap[i].role = TOOL_EXECUTION

\* C18 (as claimed): for each executed tool call exactly one tool_execution
\* message is appended, in call order, pairing the name of the call and its
\* resolved arguments, in which the schema defaults stand for the optional
\* parameters the call left out, with the parsed result of that call.
C18_ToolExecutionPairsResolvedArguments ==
    teMessages # <<>> =>
        /\ Len(teMessages) = Len(teCalls)
        /\ \A i \in 1..Len(teCalls) :
              LET exec == teMessages[i].toolExecution[1] IN
              /\ teMessages[i].role = TOOL_EXECUTION
              /\ exec.toolCall.name = teCalls[i].name
              /\ exec.toolCall.arguments.value = teCalls[i].arguments
              /\ MissingDefaults(teCalls[i].name, exec.toolCall.arguments) = {}
              /\ exec.toolResult = ParseOrRaw(teResults[i].content.kind)



\* C19 (as claimed): callTool on a client that is not connected - never
\* connected, connect failed, or disconnect() was the last of connect() and
\* disconnect() called - throws 'Not connected to MCP server', allocates no
\* message id and sends no request; a tools/call request goes out only
\* between a successful connect() and the next disconnect().
C19_CallToolNeedsConnection ==
    [][McpCallTool /\ ~(mcpConnected /\ mcpLife = "connect")
         => /\ mcpResult' = [success |-> FALSE, error |-> NotConnectedError]
            /\ mcpSent' = <<>>
            /\ mcpMessageId' = mcpMessageId
            /\ mcpPc' = "idle"]_vars

\* the hook holds no connected client and shows no connection
HookCleared ==
    /\ hkStatus = "null"
    /\ hkTools = 0
    /\ hkHandlers = 0
    /\ \A c \in HookClientIds : hkClients[c] # "connected"

\* C20 (as claimed): every client that was connected when the server URL
\* changed or the hook unmounted is eventually disconnected; and once the
\* URL is empty, unless it changes again or the hook unmounts, the status,
\* the tool list and the handlers are eventually cleared with no client left
\* connected.
C20_UrlChangeDisconnectsClient ==
    /\ \A c \in HookClientIds :
          (c \in hkPrevious) ~> (hkClients[c] = "disconnected")
    /\ (hkMounted /\ hkUrl = "")
          ~> (~hkMounted \/ hkUrl # "" \/ HookCleared)

\* C21: clearMessages leaves exactly one message, the system message with
\* the content it had before the clear; and a store that holds only the
\* system message stays so, with that content, until the next sendMessage,
\* whatever an earlier response still in flight delivers.
C21_ClearLeavesSystemMessage ==
    /\ [][EngClearMessages
            => engMessages' = <<Msg("system", engMessages[1].content)>>]_vars
    /\ [][Len(engMessages) = 1
            => \/ Len(engMessages') = 3
               \/ /\ Len(engMessages') = 1
                  /\ engMessages'[1].role = "system"
                  /\ engMessages'[1].content = engMessages[1].content]_vars

\* C21 witness: only the system message, with a prompt that is not the
\* default one, is in the store while a streamed response is in flight.
C21_Witness ==
    /\ engMessages = <<Msg("system", Content("custom prompt", 0, 0))>>
    /\ \E t \in EngineTurns : engTurn[t].pc = "streaming" /\ engTurn[t].acc > 0

(***************************************************************************)
(* Claims about the races of the sse-legacy correlation.                   *)
(***************************************************************************)
\* C22: when the POST of a request goes out, the request is already in the
\* pending map with its timer; the entry leaves the map only by its reply,
\* its timeout, a non-OK POST status or disconnect(); so a reply that
\* arrives while the POST is still unanswered finds the entry and resolves
\* the request, and the call returns that reply once the POST is answered.
C22_RegisteredBeforePost ==
    /\ [][\A i \in RequestIds :
             pqCalls[i].post # "inFlight" /\ pqCalls'[i].post = "inFlight" =>
                 /\ i \in pqPending'
                 /\ i \in pqTimers'
                 /\ pqCalls'[i].promise = "pending"]_vars
    /\ [][\A i \in RequestIds :
             i \in pqPending /\ i \notin pqPending' =>
                 \/ pqCalls'[i].promise \in {"resolved", "rejected"}
                 \/ pqCalls'[i].post = "notOk"
                 \/ PqDisconnect]_vars
    /\ [][\A data \in SSEData :
             /\ PqMessageEvent(data)
             /\ data.json
             /\ data.id \in pqPending
             /\ pqCalls[data.id].post = "inFlight"
             => /\ pqCalls'[data.id].promise = "resolved"
                /\ pqCalls'[data.id].value = data]_vars
    /\ [][\A i \in RequestIds :
             PqPostAnswered(i, "ok") /\ pqCalls[i].promise = "resolved"
             => /\ pqCalls'[i].result = "returned"
                /\ pqCalls'[i].value = pqCalls[i].value]_vars

\* the reply of a request has arrived and resolved it while its POST is
\* still unanswered
C22_Witness ==
    \E i \in RequestIds :
        /\ pqCalls[i].post = "inFlight"
        /\ pqCalls[i].promise = "resolved"
        /\ pqCalls[i].value.id = i

\* C23: a request is settled once: a promise that is resolved or rejected
\* keeps its state and value, and a call that has ended keeps its result;
\* after the reply the timer is gone, after the timeout the entry is gone,
\* so the later of the two events changes nothing; and a timer that fires
\* touches no other request, pending entry or timer.
C23_TimeoutAndReplySettleOnce ==
    /\ [][\A i \in RequestIds :
             /\ pqCalls[i].promise \in {"resolved", "rejected"} =>
                    /\ pqCalls'[i].promise = pqCalls[i].promise
                    /\ pqCalls'[i].value = pqCalls[i].value
             /\ pqCalls[i].result \notin {"none", "running"} =>
                    pqCalls'[i].result = pqCalls[i].result]_vars
    /\ [](\A i \in RequestIds :
             /\ pqCalls[i].promise = "resolved" => i \notin pqTimers /\ i \notin pqPending
             /\ pqCalls[i].promise = "rejected" => i \notin pqTimers /\ i \notin pqPending)
    /\ [][\A data \in SSEData :
             /\ PqMessageEvent(data)
             /\ data.id \in RequestIds
             /\ pqCalls[data.id].promise # "pending"
             => UNCHANGED <<pqCalls, pqPending, pqTimers>>]_vars
    /\ [][\A id \in RequestIds :
             PqTimerFires(id) =>
                 \A j \in RequestIds \ {id} :
                     /\ pqCalls'[j] = pqCalls[j]
                     /\ (j \in pqPending') = (j \in pqPending)
                     /\ (j \in pqTimers') = (j \in pqTimers)]_vars

\* one request was rejected by its timer after its POST was answered, while
\* another request is still pending with its timer running
C23_Witness ==
    \E i, j \in RequestIds :
        /\ pqCalls[i].promise = "rejected" /\ pqCalls[i].result = "timeout"
        /\ j \in pqPending /\ j \in pqTimers

(***************************************************************************)
(* Claims about the handshake of connect().                                *)
(***************************************************************************)
\* the requests of a handshake are in order: tools/list comes right after
\* notifications/initialized, which comes right after initialize; the
\* notification has no id (0) and tools/list takes the id after initialize's
HandshakeInOrder(sent) ==
    \A k \in 1..Len(sent) :
        /\ sent[k].method = "notifications/initialized" =>
               /\ sent[k].id = 0
               /\ k > 1
               /\ sent[k - 1].method = "initialize"
        /\ sent[k].method = "tools/list" =>
               /\ k > 2
               /\ sent[k - 1].method = "notifications/initialized"
               /\ sent[k - 2].method = "initialize"
               /\ sent[k].id = sent[k - 2].id + 1

\* C24 (as claimed), for ImprovedMCPClient.connect: the handshake goes
\* initialize, notifications/initialized, tools/list, each step sent only
\* after the previous one succeeded; the notification takes no request id;
\* connected becomes true only when tools/list succeeds, and a connect()
\* that fails leaves connected false.
C24_HandshakeOrder ==
    /\ [](HandshakeInOrder(impSent))
    /\ [][~impConnected /\ impConnected' =>
             \E tools \in ServerToolLists : ImpToolsListAnswered("result", tools)]_vars
    /\ [][(impPc \in {"initReply", "listReply"} /\ impPc' = "idle"
            /\ ~impResult'.success) => ~impConnected']_vars

\* a request that belongs to no session: initialize and the detection probes
BeforeSession(message) == message.method \in {"initialize", "probe POST", "probe GET"}

EmptyAssistants(msgs) ==
    SelectSeq(msgs, LAMBDA m : m.role = "assistant" /\ IsBlank(m.content)
                               /\ m.tool_calls = <<>>)

\* C26 (as claimed): while a request of the turn is in flight the list holds
\* exactly one assistant placeholder, while its tools run at most one, and
\* once the turn is over no assistant message with empty content and no
\* tool calls is left in the list.
C26_OnePlaceholderPerTurn ==
    \A t \in ChatTurns :
        /\ chTurn[t].pc \in {"streaming", "fallback"} =>
               Len(EmptyAssistants(chMessages)) = 1
        /\ chTurn[t].pc \in {"toolsInOnToolCall", "toolsInResponse"} =>
               Len(EmptyAssistants(chMessages)) <= 1
        /\ chTurn[t].pc \in {"done", "failed"} =>
               Len(EmptyAssistants(chMessages)) = 0

C28_FragmentsReassemble ==
    /\ Len(acCalls) <= Len(acExpected)
    /\ \A i \in 1..Len(acCalls) :
          /\ acFrags[i] > 0
          /\ acCalls[i].id = acExpected[i].id
          /\ acCalls[i].name = acExpected[i].name
          /\ acCalls[i].arguments = SubSeq(acExpected[i].arguments, 1, acSent[i])
    /\ \A i \in 1..Len(acExpected) : acFrags[i] > 0 => i <= Len(acCalls)
    /\ AllSent => acCalls = acExpected

\* two calls, both sent whole, one of them in three non-empty fragments
C28_Witness ==
    /\ Len(acExpected) = 2
    /\ AllSent
    /\ \E i \in 1..2 :
          /\ acFrags[i] = 3
          /\ Len(acExpected[i].arguments) = 3
          /\ acCalls[i].arguments = SubSeq(ArgumentText, 1, 3)


BadPayloads == {<<"{", "a">>, <<"}">>, <<"[DO">>, <<"{", "a", "a">>}
MalformedLines == {<<PFX>> \o p \o <<NL>> : p \in BadPayloads}
LinesBefore == {<<>>, DeltaLine("a"), DoneLine}
LinesAfter == {DeltaLine("b"), CommentLine, DoneLine}

\* C30: a data line whose payload is not valid JSON is skipped: in every
\* state of the decoder such a line leaves the decoder as it is (content,
\* counters, stream still being read), and the lines around it are decoded as
\* if it were not there, whether the next line comes in the same chunk or in
\* the next one.
C30_MalformedLineSkipped ==
    \A bad \in MalformedLines :
        /\ ProcessLine(DecoderNow, SubSeq(bad, 1, Len(bad) - 1)) = DecoderNow
        /\ ProcessChunk(DecoderNow, bad) = DecoderNow
        /\ \A before \in LinesBefore, after \in LinesAfter :
              /\ ProcessChunk(DecoderNow, before \o bad \o after)
                   = ProcessChunk(DecoderNow, before \o after)
              /\ ProcessChunk(ProcessChunk(DecoderNow, before \o bad), after)
                   = ProcessChunk(DecoderNow, before \o after)

\* a stream whose first line was malformed and whose second line was decoded
C30_Witness ==
    /\ body = MalformedLine \o DeltaLine("a")
    /\ pos = Len(body)
    /\ accumulatedContent = <<"a">>
    /\ readerState = "reading"


\* C31: reading a `data: [DONE]` line ends the stream at once: the content
\* accumulated up to the sentinel is written, completion is signalled once,
\* the lines that follow the sentinel in the same chunk change nothing, and
\* nothing is read or written afterwards.
C31_SentinelCompletes ==
    /\ [](readerState = "sentinel" =>
              shown = accumulatedContent /\ completions = 1)
    /\ [](readerState = "reading" =>
              \A after \in LineKinds :
                  ProcessChunk(DecoderNow, DoneLine \o after)
                      = FinalFlush(DecoderNow, "sentinel"))
    /\ [][readerState = "sentinel" => UNCHANGED decVars]_vars

\* the sentinel was read after one delta and a delta line followed it
C31_Witness ==
    /\ readerState = "sentinel"
    /\ body = DeltaRun(1) \o DoneLine \o DeltaLine("b")
    /\ pos = Len(body)
    /\ shown = <<"a">>


StartsWith(whole, part) ==
    Len(part) <= Len(whole) /\ SubSeq(whole, 1, Len(part)) = part

\* C32: the contents the decoder emits for one stream only grow: each one
\* starts with the one emitted before it and is the start of the content
\* accumulated so far, hence of the final content; this holds line by line
\* inside a chunk and from chunk to chunk.
C32_EmissionsOnlyGrow ==
    /\ [](StartsWith(accumulatedContent, shown))
    /\ [](\A kind \in LineKinds :
             LET line == SubSeq(kind, 1, Len(kind) - 1)
                 next == ProcessLine(DecoderNow, line)
             IN  /\ StartsWith(next.shown, shown)
                 /\ StartsWith(next.acc, accumulatedContent)
                 /\ StartsWith(next.acc, next.shown))
    /\ [][StartsWith(shown', shown)
          /\ StartsWith(accumulatedContent', accumulatedContent)]_vars
    /\ [](readerState # "reading" => shown = accumulatedContent)

\* a throttled emission of six deltas was followed by the final one of seven
C32_Witness ==
    /\ readerState = "eof"
    /\ updates = 1
    /\ Len(shown) = 7


\* the data lines that carry a well-formed JSON payload
WellFormedFrames == {DeltaLine("a"), DeltaLine("b"), CommentLine, NoContentLine}

\* the JSON value a well-formed frame carries
FrameMessage(line) ==
    IF line = CommentLine THEN [ok |-> TRUE, type |-> "comment", content |-> ""]
    ELSE IF line = NoContentLine THEN [ok |-> TRUE, type |-> "other", content |-> ""]
    ELSE [ok |-> TRUE, type |-> "delta", content |-> line[3]]

\* C33: for an event-stream body the reply is the payload of the first data
\* line that parses as JSON, whatever malformed data lines, [DONE] lines and
\* other lines precede it and whatever frames follow it; a body without such
\* a line fails with an error.
C33_FirstWellFormedFrame ==
    sbResult.error \notin {"pending", "unused"} =>
        LET good == {i \in 1..Len(sbBody) : sbBody[i] \in WellFormedFrames}
        IN  IF good = {}
            THEN sbResult = NoValidMessage
            ELSE LET first == CHOOSE i \in good : \A j \in good : i <= j
                 IN  sbResult = SseResult(TRUE, FrameMessage(sbBody[first]), "")

\* a malformed line and the sentinel were skipped and a later frame ignored
C33_Witness ==
    /\ sbBody = <<MalformedLine, DoneLine, DeltaLine("a"), DeltaLine("b")>>
    /\ sbResult = SseResult(TRUE, FrameMessage(DeltaLine("a")), "")


\* the contents a streaming or fallback update writes
UpdateKinds == {"stream", "fallback", "Error: fallback failed"}

\* C34 (as claimed): an update of a sendMessage call is written only to the
\* assistant placeholder that call created: every message that holds the
\* content of call t is an assistant message and follows the user message of
\* call t, under every interleaving of sendMessage calls, stream events and
\* clearMessages.
C34_UpdateStaysInOwnTurn ==
    \A i \in 1..Len(engMessages) :
        engMessages[i].content.kind \in UpdateKinds =>
            /\ engMessages[i].role = "assistant"
            /\ i > 1
            /\ engMessages[i - 1].role = "user"
            /\ engMessages[i - 1].content.src = engMessages[i].content.src

\* the half of C34 that holds: no update is written into a message that is
\* not an assistant message
C34_OnlyAssistantWritten ==
    \A i \in 1..Len(engMessages) :
        engMessages[i].content.kind \in UpdateKinds => engMessages[i].role = "assistant"


\* no connection attempt of the hook is scheduled or running
HookSettled ==
    /\ hkMounted
    /\ ~hkTimer.armed
    /\ \A c \in HookClientIds : hkClients[c] # "connecting"

\* C35 (as claimed): a connect() that was started for an older URL never
\* writes the hook's client, tools, handlers or status once the URL has
\* changed, so status 'connected' is never set while the URL is empty, and
\* when every attempt has settled the state is that of the most recent URL:
\* cleared for an empty URL, otherwise the client (if any) of that URL.
C35_LatestUrlWins ==
    /\ [][\A c \in HookClientIds :
             (hkClients[c] = "connecting" /\ hkClients'[c] # "connecting"
              /\ hkClientUrl[c] # hkUrl)
                 => UNCHANGED <<hkClient, hkTools, hkHandlers, hkStatus>>]_vars
    /\ [][(hkUrl = "" /\ hkStatus' = "connected") => hkStatus = "connected"]_vars
    /\ [](HookSettled =>
             IF hkUrl = ""
             THEN hkStatus = "null" /\ hkClient = 0 /\ hkTools = 0 /\ hkHandlers = 0
             ELSE /\ hkClient # 0 => hkClientUrl[hkClient] = hkUrl
                  /\ hkTools = hkClient /\ hkHandlers = hkClient
                  /\ hkStatus = (IF hkClient # 0 THEN "connected" ELSE "error"))


\* connectSSELegacy has not settled
SseLegacyPending == mcpPc \in {"sseOpening", "sseWaiting"}

\* C36 (as claimed): connectSSELegacy always settles: when the endpoint event
\* never arrives the attempt is rejected by its timeout, also after the
\* EventSource has opened.
C36_ConnectSSELegacySettles == SseLegacyPending ~> ~SseLegacyPending

\* what holds: while the EventSource has not opened the attempt settles
C36_SettlesBeforeOpen == (mcpPc = "sseOpening") ~> (mcpPc # "sseOpening")


\* where connect() waits during the handshake, after the transport is set up
HandshakePhases == {"initPost", "initReply", "notify", "delay", "listPost", "listReply"}

\* C37 (as claimed): when connect() ends in failure during the handshake on
\* the sse-legacy transport, the EventSource of that attempt is not left
\* open.
C37_FailedConnectClosesEventSource ==
    [][(/\ mcpTransport = "sse-legacy"
        /\ mcpPc \in HandshakePhases
        /\ mcpPc' = "idle"
        /\ ~mcpResult'.success)
           => mcpSse' # "open"]_vars

\* what holds: a connection attempt that fails in connectSSELegacy itself
\* (error event, or timeout before the EventSource opened) closes it
C37_FailedOpeningClosesEventSource ==
    [][(SseLegacyPending /\ mcpPc' = "idle" /\ ~mcpResult'.success)
           => mcpSse' # "open"]_vars


\* the JSON-RPC requests among the messages sent: notifications carry no id
\* and the GET probe is no JSON-RPC message
IsRequest(message) ==
    message.method \notin {"notifications/initialized", "probe GET"}

\* the requests that sendMessage builds
IsCounted(message) == IsRequest(message) /\ message.method # "probe POST"

\* ids the counter has given out
GivenOut == 1..(mcpMessageId - 1)

\* C38 (as claimed): every JSON-RPC request the client sends carries a
\* numeric id of its own, taken from the counter.
C38_DistinctNumericIds ==
    \A i \in 1..Len(mcpSent) :
        IsRequest(mcpSent[i]) =>
            /\ mcpSent[i].id # TransportTestId
            /\ mcpSent[i].id \in GivenOut
            /\ \A j \in 1..Len(mcpSent) :
                  IsRequest(mcpSent[j]) /\ mcpSent[j].id = mcpSent[i].id => i = j

\* C38 (amended): every request sent through sendMessage carries the value of
\* the id counter, which grows by one with each such request and is never
\* set back, also not by disconnect(); so the ids are distinct for the life
\* of the object, every key of the pending map and every running timer
\* belongs to an id given out before, and the request being awaited is the
\* newest.  Only the detection probe carries an id that is not from the
\* counter.
C38_CounterIdsDistinct ==
    /\ [](\A i \in 1..Len(mcpSent) :
             IsCounted(mcpSent[i]) =>
                 /\ mcpSent[i].id \in GivenOut
                 /\ \A j \in 1..Len(mcpSent) :
                       IsCounted(mcpSent[j]) /\ mcpSent[j].id = mcpSent[i].id => i = j)
    /\ [](mcpPending \subseteq GivenOut /\ mcpTimers \subseteq GivenOut)
    /\ [](mcpAwaited # 0 => mcpAwaited = mcpMessageId - 1)
    /\ [][mcpMessageId' \in {mcpMessageId, mcpMessageId + 1}]_vars
    /\ [][mcpMessageId' = mcpMessageId + 1 =>
              (/\ mcpSent' # <<>>
               /\ IsCounted(mcpSent'[Len(mcpSent')])
               /\ mcpSent'[Len(mcpSent')].id = mcpMessageId
               /\ mcpMessageId \notin mcpPending \cup mcpTimers)]_vars
    /\ [][(mcpSent' # mcpSent /\ mcpSent' # <<>>
           /\ IsCounted(mcpSent'[Len(mcpSent')]))
              => mcpMessageId' = mcpMessageId + 1]_vars

\* initialize was sent again by a later connect(), under a new id, while the
\* timer of an abandoned request of the earlier attempt is still running
C38_Witness ==
    /\ mcpLife = "connect"
    /\ \E i \in 1..Len(mcpSent) :
          mcpSent[i].method = "initialize" /\ mcpSent[i].id > 1
    /\ \E id \in mcpTimers : id < mcpAwaited

(***************************************************************************)
(* Claims about the callbacks of streamCompletion (React build).           *)
(***************************************************************************)
\* how often the current streamCompletion call invoked a callback
TimesCalled(callback) ==
    Cardinality({i \in 1..Len(rxCallbacks) : rxCallbacks[i] = callback})

\* C39 (as claimed): each streamCompletion call invokes exactly one of
\* onComplete and onError, once: onComplete is never followed by onError,
\* and so never by a fallback request, also when onComplete itself raises.
C39_ExactlyOneCallback ==
    /\ TimesCalled("onComplete") + TimesCalled("onError") <= 1
    /\ TimesCalled("onComplete") = 1 => rxFallbackReq = NoRequest
    /\ rxPc # "streaming" /\ rxTurn > 0 =>
           TimesCalled("onComplete") + TimesCalled("onError") = 1

\* what holds: a call that has ended invoked each callback at most once, and
\* at least one of them; when both were invoked onComplete came first
C39_AtMostOnceEach ==
    /\ TimesCalled("onComplete") <= 1
    /\ TimesCalled("onError") <= 1
    /\ rxPc = "streaming" <=> (rxCallbacks = <<>> /\ rxTurn > 0)
    /\ Len(rxCallbacks) = 2 => rxCallbacks = <<"onComplete", "onError">>

(***************************************************************************)
(* Claims about the onMessage callback of the component.                   *)
(***************************************************************************)
\* the step makes an onMessage call
NotifiesParent == Len(nfOnMessage') = Len(nfOnMessage) + 1

\* C40 (as claimed): when a turn completes, onMessage is invoked once with
\* the user's text and the final content of the assistant message that the
\* turn created.
C40_OnMessageCarriesTurnResponse ==
    [][(\E n \in NotifyLengths : NfStreamCompletes(n) \/ NfFallbackAnswers(n))
       /\ nfMessages' # <<>> =>
           /\ NotifiesParent
           /\ LET call == nfOnMessage'[Len(nfOnMessage')]
              IN  /\ TrimText(call.message) = nfMessages'[Len(nfMessages') - 1].content.kind
                  /\ call.response = nfMessages'[Len(nfMessages')].content]_vars

\* what holds: every onMessage call carries the text given to the handler
\* and the content that the last assistant message had in the render before
\* the turn (empty when there was none), and each accepted turn makes at
\* most one call
C40_OnMessageCarriesEarlierResponse ==
    /\ [][NotifiesParent =>
             /\ nfHandler.waiting
             /\ nfOnMessage' = Append(nfOnMessage,
                   [message |-> nfHandler.message,
                    response |-> LastAssistantContent(nfHandler.messages)])
             /\ nfOnMessage'[Len(nfOnMessage')].response.src < nfTurn]_vars
    /\ [](Len(nfOnMessage) + nfOnError <= nfTurn)

============================================================================
